---- MODULE Spec2Model ----
(***************************************************************************)
(* Model of the radiance-caching renderer (mcrt::Renderer): the start-up   *)
(* sequence of the constructor, the UV-to-cell assignment, the gather and  *)
(* scatter passes of calculateIndirectLighting, the CUDA stream the passes *)
(* are launched on, and the host-side SH normalisation.                    *)
(*                                                                         *)
(* Numbers: world positions are exact rationals [n |-> <<x,y,z>>, d |-> k] *)
(* (numerators over one positive denominator); UV coordinates of texels    *)
(* are integers in units of 1/TexSize, UV coordinates of mesh vertices are *)
(* integers in units of 1/UVOne.  SH coefficients are exact values         *)
(* num / (den * (4 pi)^pi).                                                *)
(***************************************************************************)
EXTENDS Integers, Sequences, FiniteSets, TLC

\* ---------------------------------------------------------------- bounds
\* side length of the UV lighting textures (1024 in the program)
TexSize == 2
\* mesh texture coordinates are given in units of 1/UVOne
UVOne == 2
\* calls of calculateIndirectLighting that are explored (the constructor's
\* call included)
MaxIndirectCalls == 3
\* samples that reach the SH accumulators during one gather pass, at most
MaxSamplesPerPass == 2
\* samples that reach the SH accumulators during one run, at most
MaxSamples == 2
\* largest window width tried, and calls of render and resize in one run
MaxFrameWidth == 2
MaxFrameCalls == 2
\* samples a scatter thread takes (NUM_SAMPLES_HEMISPHERE is 10 and
\* NUM_DIRECTION_SAMPLES is 100 in the source)
SamplesPerThread == 2

\* ------------------------------------------------------ program constants
SPHERICAL_HARMONIC_BASIS_FUNCTIONS == 9
NUM_SH_PER_CELL == 8
\* loop bound of the bounce loop in calculateIndirectLighting
NUM_BOUNCE_ITERATIONS == 1
\* coordinate of the sentinel UVto3D returns for an uncovered texel
SENTINEL_COORD == -1000

Axes == 1..3

\* texels of a lighting texture
NumTexels == TexSize * TexSize

\* ------------------------------------------------------------- arithmetic
\* an exact rational point: numerators n over the common denominator d > 0
Pt(x, y, z) == [n |-> <<x, y, z>>, d |-> 1]

SentinelPos == Pt(SENTINEL_COORD, SENTINEL_COORD, SENTINEL_COORD)

Min2(a, b) == IF a < b THEN a ELSE b
Max2(a, b) == IF a > b THEN a ELSE b

\* ------------------------------------------------------------------ scenes
\* A scene: game objects in order, each a translation (object2World) and a
\* list of triangles with per-vertex texture coordinates (texCoords) and
\* positions (vertices); the scene bounds and the cell size of the grid.
Tri(uv1, uv2, uv3, p1, p2, p3) == [uv |-> <<uv1, uv2, uv3>>, vtx |-> <<p1, p2, p3>>]

\* one triangle over three texels, one texel uncovered; 2x2x1 grid
SceneCorner ==
  [objs |-> << [o2w |-> <<0, 0, 0>>,
                tris |-> << Tri(<<0,0>>, <<1,0>>, <<0,1>>,
                                <<0,0,0>>, <<3,1,0>>, <<1,1,1>>) >>] >>,
   sceneMin |-> <<0, 0, 0>>, sceneMax |-> <<4, 4, 2>>, cellSize |-> 2]

\* no geometry at all: every texel is uncovered
SceneEmpty ==
  [objs |-> << >>,
   sceneMin |-> <<0, 0, 0>>, sceneMax |-> <<2, 2, 2>>, cellSize |-> 2]

\* a degenerate (zero UV area) triangle first, then a triangle covering all
\* texels whose far vertex lies on sceneMax (the clamped boundary);
\* negative sceneMin
SceneBoundary ==
  [objs |-> << [o2w |-> <<0, 0, 0>>,
                tris |-> << Tri(<<0,0>>, <<1,1>>, <<2,2>>,
                                <<0,0,0>>, <<1,1,1>>, <<2,2,2>>) >>],
               [o2w |-> <<-2, -2, -2>>,
                tris |-> << Tri(<<0,0>>, <<2,0>>, <<0,2>>,
                                <<0,0,0>>, <<8,8,8>>, <<0,0,2>>) >>] >>,
   sceneMin |-> <<-2, -2, -2>>, sceneMax |-> <<2, 2, 2>>, cellSize |-> 2]

\* two overlapping UV charts (first match wins), the second object moved
\* partly outside the scene bounds; cell size not dividing the extent
SceneOverlap ==
  [objs |-> << [o2w |-> <<0, 0, 0>>,
                tris |-> << Tri(<<0,0>>, <<1,0>>, <<0,1>>,
                                <<1,1,1>>, <<1,1,1>>, <<4,1,1>>) >>],
               [o2w |-> <<3, 0, 0>>,
                tris |-> << Tri(<<2,2>>, <<0,2>>, <<2,0>>,
                                <<0,0,0>>, <<3,0,0>>, <<0,3,0>>) >>] >>,
   sceneMin |-> <<0, 0, 0>>, sceneMax |-> <<4, 4, 4>>, cellSize |-> 3]

\* clockwise UV winding (negative area), positions between grid points
SceneClockwise ==
  [objs |-> << [o2w |-> <<0, 0, 0>>,
                tris |-> << Tri(<<0,0>>, <<0,2>>, <<2,0>>,
                                <<0,0,0>>, <<0,3,0>>, <<3,0,0>>) >>] >>,
   sceneMin |-> <<0, 0, 0>>, sceneMax |-> <<3, 3, 1>>, cellSize |-> 2]

Scenes == {SceneCorner, SceneEmpty, SceneBoundary, SceneOverlap, SceneClockwise}

\* ------------------------------------------------- UV-World mapping (host)
\* variant: the row is taken from the column index
TexelUVColumnOnly(i) == << i % TexSize, i % TexSize >>

\* uv of texel i as prepareUVWorldPositions computes it, in units 1/TexSize:
\* u = (i % texSize) / texSize, v = ((i - i % texSize) / texSize) / texSize
TexelUV(i) == << i % TexSize, (i - (i % TexSize)) \div TexSize >>

\* Renderer::area, times 2 and in units of 1/(UVOne*TexSize) squared: only
\* its sign, its zero test and ratios of two areas are used
area(a, b, c) == (a[1] - c[1]) * (b[2] - c[2]) - (a[2] - c[2]) * (b[1] - c[1])

\* texel and mesh texture coordinates on the common scale 1/(UVOne*TexSize)
TexelScaled(uv) == << uv[1] * UVOne, uv[2] * UVOne >>
MeshScaled(tc) == << tc[1] * TexSize, tc[2] * TexSize >>

\* all triangles of the scene in (game object order, triangle order)
RECURSIVE TrianglesFrom(_, _)
TrianglesFrom(objs, g) ==
  IF g > Len(objs) THEN << >>
  ELSE [t \in 1..Len(objs[g].tris) |-> [tri |-> objs[g].tris[t], o2w |-> objs[g].o2w]]
       \o TrianglesFrom(objs, g + 1)

SceneTriangles(sc) == TrianglesFrom(sc.objs, 1)

\* variant: a texel on an edge of the triangle does not pass
TriangleCoversStrict(t, uv) ==
  LET uv1 == MeshScaled(t.tri.uv[1])
      uv2 == MeshScaled(t.tri.uv[2])
      uv3 == MeshScaled(t.tri.uv[3])
      p   == TexelScaled(uv)
      a   == area(uv1, uv2, uv3)
  IN  /\ a # 0
      /\ area(uv2, uv3, p) * a > 0
      /\ area(uv3, uv1, p) * a > 0
      /\ area(uv1, uv2, p) * a > 0

\* the barycentric test of UVto3D on one triangle: degenerate triangles and
\* negative coordinates are skipped (a1 = area/a < 0 iff the signs differ)
TriangleCovers(t, uv) ==
  LET uv1 == MeshScaled(t.tri.uv[1])
      uv2 == MeshScaled(t.tri.uv[2])
      uv3 == MeshScaled(t.tri.uv[3])
      p   == TexelScaled(uv)
      a   == area(uv1, uv2, uv3)
  IN  /\ a # 0
      /\ area(uv2, uv3, p) * a >= 0
      /\ area(uv3, uv1, p) * a >= 0
      /\ area(uv1, uv2, p) * a >= 0

\* uvPosition = a1*v1 + a2*v2 + a3*v3, moved by object2World
TrianglePosition(t, uv) ==
  LET uv1 == MeshScaled(t.tri.uv[1])
      uv2 == MeshScaled(t.tri.uv[2])
      uv3 == MeshScaled(t.tri.uv[3])
      p   == TexelScaled(uv)
      a   == area(uv1, uv2, uv3)
      s   == IF a < 0 THEN -1 ELSE 1
      b1  == s * area(uv2, uv3, p)
      b2  == s * area(uv3, uv1, p)
      b3  == s * area(uv1, uv2, p)
      d   == s * a
  IN  [n |-> [k \in Axes |-> b1 * t.tri.vtx[1][k] + b2 * t.tri.vtx[2][k]
                              + b3 * t.tri.vtx[3][k] + d * t.o2w[k]],
       d |-> d]

RECURSIVE FirstCovering(_, _, _)
FirstCovering(tris, uv, k) ==
  IF k > Len(tris) THEN 0
  ELSE IF TriangleCovers(tris[k], uv) THEN k
  ELSE FirstCovering(tris, uv, k + 1)

\* variant: a zero-initialised record instead of the -1000 sentinel
SentinelDataOrigin == [worldPosition |-> Pt(0, 0, 0), worldNormal |-> Pt(0, 0, 0), tri |-> 0]

\* the sentinel record of UVto3D (position and normal -1000)
SentinelData == [worldPosition |-> SentinelPos, worldNormal |-> SentinelPos, tri |-> 0]

\* Renderer::UVto3D: data of the first triangle that passes the test, or
\* the sentinel; tri records which triangle supplied the data
UVto3D(sc, uv) ==
  LET tris == SceneTriangles(sc)
      k    == FirstCovering(tris, uv, 1)
  IN  IF k = 0 THEN SentinelData
      ELSE [worldPosition |-> TrianglePosition(tris[k], uv),
            worldNormal |-> Pt(0, 0, 1), tri |-> k]

\* -------------------------------------------------------------- RadianceGrid
\* build: ceil((max - min) / cellSize) cells per axis
GridDim(sc) == [k \in Axes |-> ((sc.sceneMax[k] - sc.sceneMin[k]) + sc.cellSize - 1) \div sc.cellSize]

Cells(sc) == { c \in [Axes -> 0..3] : \A k \in Axes : c[k] < GridDim(sc)[k] }

\* position of a cell in the dense cell array
CellArrayIndex(sc, c) == c[1] + GridDim(sc)[1] * (c[2] + GridDim(sc)[2] * c[3])

\* a position is within the grid bounds [sceneMin, sceneMax]
InsideBounds(sc, pos) ==
  \A k \in Axes : /\ sc.sceneMin[k] * pos.d <= pos.n[k]
                  /\ pos.n[k] <= sc.sceneMax[k] * pos.d

\* floor((worldPos - sceneMin) / cellSize), componentwise
FloorCoord(sc, pos) ==
  [k \in Axes |-> (pos.n[k] - sc.sceneMin[k] * pos.d) \div (sc.cellSize * pos.d)]

\* ... clamped to [0, gridDim - 1]
ClampCoord(sc, c) == [k \in Axes |-> Max2(0, Min2(c[k], GridDim(sc)[k] - 1))]

OwningCell(sc, pos) == ClampCoord(sc, FloorCoord(sc, pos))

\* a position lies inside the (closed) cube of cell c
InsideCell(sc, c, pos) ==
  \A k \in Axes :
     /\ (sc.sceneMin[k] + c[k] * sc.cellSize) * pos.d <= pos.n[k]
     /\ pos.n[k] <= (sc.sceneMin[k] + (c[k] + 1) * sc.cellSize) * pos.d

\* RadianceGrid::assignUVToCells on the grid state g = [uvs, nonEmpty]:
\* a position outside the bounds is dropped, otherwise uv is appended to
\* the texel list of the owning cell, which is marked non-empty
assignUVToCells(sc, g, uv, worldPos) ==
  IF ~InsideBounds(sc, worldPos) THEN g
  ELSE LET c == OwningCell(sc, worldPos)
       IN  [uvs |-> [g.uvs EXCEPT ![c] = Append(@, uv)],
            nonEmpty |-> g.nonEmpty \cup {c}]

\* the cells of a set in array order
RECURSIVE CellsInOrder(_, _)
CellsInOrder(sc, S) ==
  IF S = {} THEN << >>
  ELSE LET c == CHOOSE x \in S : \A y \in S : CellArrayIndex(sc, x) <= CellArrayIndex(sc, y)
       IN  <<c>> \o CellsInOrder(sc, S \ {c})

\* RadianceGrid::getNonEmptyCells: the flagged cells in array order
getNonEmptyCells(sc, g) == CellsInOrder(sc, g.nonEmpty)

\* the grid right after Scene::buildRadianceGrid
EmptyGrid(sc) == [uvs |-> [c \in Cells(sc) |-> << >>], nonEmpty |-> {}]

\* ------------------------------------------------------ SH probe buffers
\* an exact coefficient value num / (den * (4 pi)^pi)
Zero == [num |-> 0, den |-> 1, pi |-> 0]
Raw(x) == [num |-> x, den |-> 1, pi |-> 0]

\* v * weight with weight = 1.0f / (N * 4 * pi)
Scale(v, N) ==
  IF v.num = 0 /\ N # 0 THEN Zero
  ELSE [num |-> v.num, den |-> v.den * N, pi |-> v.pi + 1]

\* variant: the sub-probe stride is the number of sub-probes
SHWeightIndexStride8(i, sh, bf) ==
  i * NUM_SH_PER_CELL * SPHERICAL_HARMONIC_BASIS_FUNCTIONS + sh * NUM_SH_PER_CELL + bf

\* (nonEmptyCellIndex * 8 * 9) + (SHIndex * 9) + BasisFunctionIndex
SHWeightIndex(i, sh, bf) ==
  i * NUM_SH_PER_CELL * SPHERICAL_HARMONIC_BASIS_FUNCTIONS
    + sh * SPHERICAL_HARMONIC_BASIS_FUNCTIONS + bf

\* i * 8 + sh
NumSamplesIndex(i, sh) == i * NUM_SH_PER_CELL + sh

\* the (cell, sub-probe, basis function) triples and (cell, sub-probe) pairs
\* the loops of the gather pass and of writeWeightsToTxtFile run over
SHTriples(amountCells) ==
  (0..(amountCells - 1)) \X (0..(NUM_SH_PER_CELL - 1)) \X (0..8)

SHPairs(amountCells) == (0..(amountCells - 1)) \X (0..(NUM_SH_PER_CELL - 1))

\* slots of shCoefficients / numSamplesPerSH the host loops read or write
HostAccessedWeightSlots(amountCells) ==
  { SHWeightIndex(t[1], t[2], t[3]) : t \in SHTriples(amountCells) }

HostAccessedCountSlots(amountCells) ==
  { NumSamplesIndex(t[1], t[2]) : t \in SHPairs(amountCells) }

\* slot k of the weights buffer belongs to sub-probe (k / 72, (k % 72) / 9)
CellOfSlot(k) == k \div (NUM_SH_PER_CELL * SPHERICAL_HARMONIC_BASIS_FUNCTIONS)
SHOfSlot(k) ==
  (k % (NUM_SH_PER_CELL * SPHERICAL_HARMONIC_BASIS_FUNCTIONS)) \div SPHERICAL_HARMONIC_BASIS_FUNCTIONS

\* Renderer::initSHWeightsBuffer: both buffers freed and re-allocated zeroed
initSHWeightsBuffer(amountNonEmptyCells) ==
  [weights |-> [k \in 1..(amountNonEmptyCells * NUM_SH_PER_CELL
                           * SPHERICAL_HARMONIC_BASIS_FUNCTIONS) |-> Zero],
   numSamples |-> [k \in 1..(amountNonEmptyCells * NUM_SH_PER_CELL) |-> 0]]

\* the samples a gather thread can deliver: sub-probe, radiance read from
\* the light source texture, and ray direction
SampleTable == << [sh |-> 0, rad |-> 1, dir |-> 0],
                  [sh |-> 7, rad |-> 2, dir |-> 1],
                  [sh |-> 0, rad |-> 3, dir |-> 2] >>

\* value of basis function bf in direction dir
Basis(dir, bf) == ((dir + bf) % 3) - 1

\* variant: the products are stored, not added
AccumulateSampleStore(buf, i, s) ==
  [weights |-> [k \in 1..Len(buf.weights) |->
                  IF CellOfSlot(k - 1) = i /\ SHOfSlot(k - 1) = s.sh
                  THEN Raw(s.rad * Basis(s.dir, (k - 1) % SPHERICAL_HARMONIC_BASIS_FUNCTIONS))
                  ELSE buf.weights[k]],
   numSamples |-> [buf.numSamples EXCEPT ![NumSamplesIndex(i, s.sh) + 1] = @ + 1]]

\* SH gather kernel, one sample: radiance * basis[k] is added atomically to
\* coefficient k of the sub-probe and its sample counter is incremented
AccumulateSample(buf, i, s) ==
  [weights |-> [k \in 1..Len(buf.weights) |->
                  IF CellOfSlot(k - 1) = i /\ SHOfSlot(k - 1) = s.sh
                  THEN Raw(buf.weights[k].num
                           + s.rad * Basis(s.dir, (k - 1) % SPHERICAL_HARMONIC_BASIS_FUNCTIONS))
                  ELSE buf.weights[k]],
   numSamples |-> [buf.numSamples EXCEPT ![NumSamplesIndex(i, s.sh) + 1] = @ + 1]]

\* variant: the buffer entries are written as they are
writeWeightsToTxtFileRaw(weights, numSamples, amountCells) ==
  [l \in 1..(amountCells * NUM_SH_PER_CELL) |->
     [bf \in 1..SPHERICAL_HARMONIC_BASIS_FUNCTIONS |->
        weights[SHWeightIndex((l - 1) \div NUM_SH_PER_CELL, (l - 1) % NUM_SH_PER_CELL, bf - 1) + 1]]]

\* Renderer::writeWeightsToTxtFile: one line per (cell, sub-probe) of 9
\* values weights[cellOffset + shOffset + bf] * weight, the weight being
\* 1/(numSamples*4*pi) for a positive sample count and 0 otherwise
writeWeightsToTxtFile(weights, numSamples, amountCells) ==
  [l \in 1..(amountCells * NUM_SH_PER_CELL) |->
     LET i  == (l - 1) \div NUM_SH_PER_CELL
         sh == (l - 1) % NUM_SH_PER_CELL
         N  == numSamples[NumSamplesIndex(i, sh) + 1]
     IN  [bf \in 1..SPHERICAL_HARMONIC_BASIS_FUNCTIONS |->
            IF N > 0 THEN Scale(weights[SHWeightIndex(i, sh, bf - 1) + 1], N)
            ELSE Zero]]

\* variant: the guard admits a sample count of 0
NormalizedSubProbeWithZero(numSamples, i, sh) == numSamples[NumSamplesIndex(i, sh) + 1] >= 0

\* the sub-probes whose coefficients the gather pass multiplies by a weight
NormalizedSubProbe(numSamples, i, sh) == numSamples[NumSamplesIndex(i, sh) + 1] > 0

\* variant: the weight is applied a second time
NormalizeWeightsTwice(weights, numSamples) ==
  [k \in 1..Len(weights) |->
     LET N == numSamples[NumSamplesIndex(CellOfSlot(k - 1), SHOfSlot(k - 1)) + 1]
     IN  IF N > 0 THEN Scale(Scale(weights[k], N), N) ELSE weights[k]]

\* normalisation loop of calculateRadianceCellGatherPass (lines 518-536)
NormalizeWeights(weights, numSamples) ==
  [k \in 1..Len(weights) |->
     LET i  == CellOfSlot(k - 1)
         sh == SHOfSlot(k - 1)
     IN  IF NormalizedSubProbe(numSamples, i, sh)
         THEN Scale(weights[k], numSamples[NumSamplesIndex(i, sh) + 1])
         ELSE weights[k]]

\* the sample counts the normalisation loop divides by
DivisorsOf(numSamples) ==
  { numSamples[j] : j \in { q \in 1..Len(numSamples) :
        NormalizedSubProbe(numSamples, (q - 1) \div NUM_SH_PER_CELL, (q - 1) % NUM_SH_PER_CELL) } }

\* ------------------------------------------------ calculateIndirectLighting
ProbeModes == {"SPHERICAL_HARMONICS", "CUBE_MAP"}

\* the switch on the iteration: texture handed to the gather pass
GatherSource(i) ==
  IF i = 0 THEN "lightSourceTexture"
  ELSE IF i = 1 THEN "secondBounceTexture"
  ELSE "none"

\* variant: the two destination textures exchanged
ScatterDestinationSwapped(i) ==
  IF i = 0 THEN "thirdBounceTexture"
  ELSE IF i = 1 THEN "secondBounceTexture"
  ELSE "none"

\* ... and destination texture handed to the scatter pass
ScatterDestination(i) ==
  IF i = 0 THEN "secondBounceTexture"
  ELSE IF i = 1 THEN "thirdBounceTexture"
  ELSE "none"

\* the probe mode the constructor passes
ConstructorProbeMode == "CUBE_MAP"

\* --------------------------------------------------------- bounce textures
TextureNames == {"directLightingTexture", "secondBounceTexture", "thirdBounceTexture"}

\* a texel of a bounce texture: its value (four components) and the pass
\* that stored it (<<"init", 0, 0>> for the zeros uploaded at allocation)
Texel(v, by, in) == [val |-> v, by |-> by, in |-> in]

\* Renderer::initLightingTextures: three size*size buffers of zeros
initLightingTextures(size) ==
  [n \in TextureNames |-> [i \in 1..(size * size) |-> Texel(<< 0, 0, 0, 0 >>, <<"init", 0, 0>>, 0)]]

\* ---------------------------------------------------- direct-lighting kernel
NUM_SAMPLES_PER_STRATIFY_CELL == 64

\* Scene::getLightsData: the power of each light
LightsData == << [power |-> <<1, 1, 1>>], [power |-> <<1, 0, 0>>] >>

\* lightDataBuffer.upload(lightData.data(), 1): elements that are uploaded
UploadedLights == 1

\* what an element of the light buffer that was never uploaded may hold
PowerValues == { <<1, 1, 1>>, <<0, 1, 0>> }

\* the launch grid of calculateDirectLighting: size x size x 1
DirectLaunchGrid == (0..(TexSize - 1)) \X (0..(TexSize - 1)) \X {0}

\* launchParams.amountLights = lightData.size()
amountLights == Len(LightsData)

\* launchParams.stratifyResX and stratifyResY: 5 each in the source, where
\* the texture side is 1024; here 1 each, below the texture side as there
STRATIFIED_X_SIZE == 1
STRATIFIED_Y_SIZE == 1

\* the kernel takes launch index y and z as stratifyIndexX and stratifyIndexY
StratifyIndexX(t) == t[2]
StratifyIndexY(t) == t[3]

\* the kernel takes launch index x as lightIndex
LightIndexOf(t) == t[1]

\* contents of the light buffer beyond the uploaded elements
LightBufferTails == [ { l \in 0..(TexSize - 1) : l >= UploadedLights } -> PowerValues ]

\* lightProperties.power as thread t reads it from optixLaunchParams.lights
LightPowerRead(t, tail) ==
  IF LightIndexOf(t) < UploadedLights THEN LightsData[LightIndexOf(t) + 1].power
  ELSE tail[LightIndexOf(t)]

\* per-ray data after optixTrace, texture coordinates in units of 1/UVOne:
\* the closest-hit program stores the coordinate of the hit, the miss
\* program stores (-1, -1)
HitPRD(tc) == tc

MissPRD == << -UVOne, -UVOne >>

\* outcome of tracing the rays of one thread; its 64 samples share origin
\* and direction (cellXOffset = i / 64 is an integer division)
RayHit(tc) == [hit |-> TRUE, tc |-> tc]
RayMiss == [hit |-> FALSE, tc |-> << 0, 0 >>]

\* what the geometry of the scene answers to the rays of the launch: with
\* no geometry every ray escapes; otherwise the rays of stratify column 0
\* hit the surface point mapped to (1/UVOne, 1/UVOne) when the scene has
\* several game objects, and every ray hits the surface point mapped to
\* (0, 0) when it has one
TraceOutcome(sc) ==
  IF sc.objs = << >> THEN [t \in DirectLaunchGrid |-> RayMiss]
  ELSE IF Len(sc.objs) > 1
       THEN [t \in DirectLaunchGrid |-> IF t[2] = 0 THEN RayHit(<< 1, 1 >>) ELSE RayMiss]
       ELSE [t \in DirectLaunchGrid |-> RayHit(<< 0, 0 >>)]

PRDAfterTrace(ray) == IF ray.hit THEN HitPRD(ray.tc) ELSE MissPRD

\* the test guarding the store: rayTexCoordPRD.x != -1.0f && .y != -1.0f
DirectThreadStores(ray) ==
  PRDAfterTrace(ray)[1] # -UVOne /\ PRDAfterTrace(ray)[2] # -UVOne

\* int(255.99f * power)
ColorByte(x) == (25599 * x) \div 100

\* 0xff000000 | (r << 0) | (g << 8) | (b << 16), as the four bytes of the
\* 32-bit word from the lowest to the highest
Rgba(power) == << ColorByte(power[1]), ColorByte(power[2]), ColorByte(power[3]), 255 >>

\* uvIndex = rayTexCoordPRD.x + rayTexCoordPRD.y * size, truncated to uint32
DirectWriteIndex(prd) == (prd[1] + prd[2] * TexSize) \div UVOne

\* the threads whose stores go to slot idx of the colour buffer
DirectWriters(rays, idx) ==
  { t \in DirectLaunchGrid :
      DirectThreadStores(rays[t]) /\ DirectWriteIndex(PRDAfterTrace(rays[t])) = idx }

DirectWrittenSlots(rays) ==
  { idx \in 0..(NumTexels - 1) : DirectWriters(rays, idx) # {} }

\* the colour buffer after the launch: a slot no thread stores to keeps its
\* contents, a slot with stores holds the value of the store that came last
DirectLightingKernel(tex, rays, tail, last) ==
  [i \in 1..Len(tex) |->
     IF (i - 1) \in DirectWrittenSlots(rays)
     THEN Texel(Rgba(LightPowerRead(last[i - 1], tail)), <<"direct", 0, 0>>, 0)
     ELSE tex[i]]

\* the unordered stores of the launch: any storing thread can come last
LastStores(rays) ==
  { last \in [DirectWrittenSlots(rays) -> DirectLaunchGrid] :
      \A idx \in DirectWrittenSlots(rays) : last[idx] \in DirectWriters(rays, idx) }

\* ---------------------------------------------------- cubemap gather kernel
\* initLightProbeCubeMaps(128, 26 * 8): side of a cubemap face and number
\* of cubemaps the buffer has room for; here 1 and 4
cubeMapResolution == 1
cubeMapAmount == 4

\* launch side of the gather passes: 1024 in the source, 8 times the side of
\* a cubemap face; here twice the side of a face
TEXTURE_DIVISION_RES == 2

\* a uint32_t of a colour buffer: its low 24 bits as a number, its high byte
ColorWord(rgb, a) == [rgb |-> rgb, a |-> a]

\* std::vector<uint32_t> zeros(resolution * resolution * amount * 6, 0):
\* slot k of the buffer is element k + 1; by is the cell index of the launch
\* and the traced ray of the thread a stored word comes from (<< >> for the
\* zeros uploaded at allocation)
initLightProbeCubeMaps(resolution, amount) ==
  [k \in 1..(resolution * resolution * amount * 6) |->
     [word |-> ColorWord(0, 0), by |-> << >>]]

\* the launch grid of calculateRadianceCellGatherPassCubeMap
CubeMapLaunchGrid ==
  (0..(TEXTURE_DIVISION_RES - 1)) \X (0..(TEXTURE_DIVISION_RES - 1)) \X {0}

\* the kernel takes launch index x, y, z as uPixel, vPixel and faceIndex
CubeMapFaceIndex(t) == t[3]

\* (probeOffset + faceIndex * res * res) + (vPixel * res + uPixel)
CubeMapWriteIndex(po, t) ==
  (po + CubeMapFaceIndex(t) * (cubeMapResolution * cubeMapResolution))
    + (t[2] * cubeMapResolution + t[1])

\* launchParams.probeOffset is assigned nowhere on the host (each launch
\* sets nonEmptyCellIndex only): the values the field may hold, the same for
\* every launch of the renderer
ProbeOffsetValues == {0, 6 * cubeMapResolution * cubeMapResolution}

\* closest-hit: uTexelCoord = tc.x * size, vTexelCoord = tc.y * size (int),
\* element vTexelCoord * size + uTexelCoord of the light source texture
CubeMapTexelIndex(tc) ==
  ((tc[2] * TexSize) \div UVOne) * TexSize + ((tc[1] * TexSize) \div UVOne)

\* variant: the masks of the green and the blue channel exchanged
UnpackColorSwapped(c) ==
  << c.rgb % 256, (c.rgb \div 65536) % 256, (c.rgb \div 256) % 256 >>

\* closest-hit: r = 0xff & c, g = (0xff00 & c) >> 8, b = (0xff0000 & c) >> 16
UnpackColor(c) ==
  << c.rgb % 256, (c.rgb \div 256) % 256, (c.rgb \div 65536) % 256 >>

\* the payload: glm::vec3{ r, g, b } on a hit, { 0, 0, 0 } on a miss; the
\* float of a byte and its conversion back with int() are exact
CubeMapPayload(src, ray) ==
  IF ray.hit THEN UnpackColor(src[CubeMapTexelIndex(ray.tc) + 1]) ELSE << 0, 0, 0 >>

\* raygen: 0xff000000 | (r << 0) | (g << 8) | (b << 16), r, g, b below 256
PackColor(col) == ColorWord(col[1] + 256 * col[2] + 65536 * col[3], 255)

\* the word thread t stores
CubeMapThreadValue(src, rays, t) == PackColor(CubeMapPayload(src, rays[t]))

\* the threads of one launch whose store goes to slot idx
CubeMapWriters(po, idx) == { t \in CubeMapLaunchGrid : CubeMapWriteIndex(po, t) = idx }

CubeMapWrittenSlots(po) ==
  { idx \in 0..(cubeMapResolution * cubeMapResolution * cubeMapAmount * 6 - 1) :
      CubeMapWriters(po, idx) # {} }

\* the unordered stores of the launch: any thread storing to a slot can
\* come last
CubeMapLastStores(po) ==
  { last \in [CubeMapWrittenSlots(po) -> CubeMapLaunchGrid] :
      \A idx \in CubeMapWrittenSlots(po) : last[idx] \in CubeMapWriters(po, idx) }

\* the cubemap buffer after the launch for non-empty cell i
CubeMapGatherKernel(buf, src, rays, po, i, last) ==
  [k \in 1..Len(buf) |->
     IF (k - 1) \in CubeMapWrittenSlots(po)
     THEN [word |-> CubeMapThreadValue(src, rays, last[k - 1]),
           by |-> << i, rays[last[k - 1]] >>]
     ELSE buf[k]]

\* what the geometry answers to the rays of a cubemap launch (every launch
\* traces from launchParams.probePosition, which the host assigns nowhere):
\* every ray escapes, or the rays of column 0 hit the surface point mapped
\* to (1/UVOne, 1/UVOne) and the others escape
CubeMapRayOutcomes ==
  { [t \in CubeMapLaunchGrid |-> RayMiss],
    [t \in CubeMapLaunchGrid |-> IF t[1] = 0 THEN RayHit(<< 1, 1 >>) ELSE RayMiss] }

\* pixels the light texture image may hold
LightSourceImages ==
  { [i \in 1..NumTexels |-> ColorWord(i + 256 * (2 * i) + 65536 * (3 * i), 255)],
    [i \in 1..NumTexels |-> ColorWord(255 + 65536 * 128, 0)] }

\* ------------------------------------------------------------ scatter kernel
NUM_SAMPLES_HEMISPHERE == 10

\* the generator state is kept modulo RandModulus
RandModulus == 16

\* tea<4>(val0, val1): the seed mixed from two integers
tea(val0, val1) == (val0 * 13 + val1 * 7 + 5) % RandModulus

\* lcg(prev): one step of the generator behind rnd(seed)
lcg(prev) == (prev * 5 + 3) % RandModulus

\* the numbers one thread draws: NUM_SAMPLES_HEMISPHERE times
\* float2{ rnd(seed), rnd(seed) } on its local seed
RECURSIVE RandomSequence(_, _)
RandomSequence(seed, n) ==
  IF n = 0 THEN << >> ELSE << lcg(seed) >> \o RandomSequence(lcg(seed), n - 1)

\* variant: the seed also mixes in the number of the running call
ScatterSeedPerCall(uvIndex, nonEmptyCellIndex, call) ==
  tea(uvIndex + call, nonEmptyCellIndex)

\* unsigned int seed = tea<4>(uvIndex, nonEmptyCellIndex)
ScatterSeed(uvIndex, nonEmptyCellIndex, call) == tea(uvIndex, nonEmptyCellIndex)

\* what a scatter thread of cell nonEmptyCellIndex reads of the probe data
\* (sphericalHarmonicsWeights.weights): the non-zero coefficients of its cell
ProbeData(sh, nonEmptyCellIndex) ==
  Cardinality({ k \in 0..(SPHERICAL_HARMONIC_BASIS_FUNCTIONS * 8 - 1) :
                  /\ nonEmptyCellIndex * 72 + k + 1 <= Len(sh.weights)
                  /\ sh.weights[nonEmptyCellIndex * 72 + k + 1].num # 0 })

\* the estimate a thread stores, as far as it depends on the numbers drawn
\* and on the probe data read
RECURSIVE ScatterEstimate(_, _, _)
ScatterEstimate(seq, k, probe) ==
  IF k > Len(seq) THEN 1 + probe ELSE (k * seq[k]) + ScatterEstimate(seq, k + 1, probe)

\* the read without the cell's offset
ScatterThreadUVNoOffset(buf, nonEmptyCellIndex, uvIndex) ==
  buf.uvs[uvIndex + 1]

\* uv = uvsInside[uvsInsideOffsets[nonEmptyCellIndex] + uvIndex]
ScatterThreadUV(buf, nonEmptyCellIndex, uvIndex) ==
  buf.uvs[buf.offsets[nonEmptyCellIndex + 1] + uvIndex + 1]

\* the texel of uv in a destination of side TexSize (the kernel scales uv
\* by the side length of its destination, objectTextureResolutions / 2)
ScatterWriteIndex(uv) == uv[2] * TexSize + uv[1]

\* the unbiased kernel reads the world data of uv at element v * size + u
\* and hands write_octree the position moved along the normal; the place
\* written in the octree texture is given by that position
OctreeWriteKey(world, uv) ==
  << world[uv[2] * TexSize + uv[1] + 1].worldPosition,
     world[uv[2] * TexSize + uv[1] + 1].worldNormal >>

\* value thread uvIndex of launch l stores: float4{ r, g, b, 0.0f }
ScatterThreadValue(sh, l, uvIndex) ==
  LET e == ScatterEstimate(RandomSequence(ScatterSeed(uvIndex, l.cellIndex, l.call),
                                          2 * NUM_SAMPLES_HEMISPHERE),
                           1, ProbeData(sh, l.cellIndex))
  IN  << e, e, e, 0 >>

\* threads of launch l (width threads) whose store goes to slot idx
ScatterWriters(buf, l, width, idx) ==
  { j \in 0..(width - 1) : ScatterWriteIndex(ScatterThreadUV(buf, l.cellIndex, j)) = idx }

ScatterWrittenSlots(buf, l, width) ==
  { idx \in 0..(NumTexels - 1) : ScatterWriters(buf, l, width, idx) # {} }

\* the destination after launch l: one store per thread, the last one stays
ScatterKernel(tex, sh, buf, l, width, last) ==
  [i \in 1..Len(tex) |->
     IF (i - 1) \in ScatterWrittenSlots(buf, l, width)
     THEN Texel(ScatterThreadValue(sh, l, last[i - 1]), << l.pass, l.call, l.iter >>,
                ProbeData(sh, l.cellIndex))
     ELSE tex[i]]

ScatterLastStores(buf, l, width) ==
  { last \in [ScatterWrittenSlots(buf, l, width) -> 0..(width - 1)] :
      \A idx \in ScatterWrittenSlots(buf, l, width) :
         last[idx] \in ScatterWriters(buf, l, width, idx) }

\* ------------------------------------- scatter kernels, sample by sample
\* tmax of the traces: TRACING_RANGE 0.0f in the hybrid kernel, 1e20f in
\* the unbiased kernel (here beyond every distance of the model)
TRACING_RANGE == 0
UnbiasedTMax == 2

\* what a sample of a thread meets: dot is dot(randomDir, normal) of the
\* direction drawn, in units of 1/2, and dist the distance of the geometry
\* along the direction that is traced (NoGeometry where there is none)
NoGeometry == -1
SampleInputs == [dot : {-1, 1}, dist : {NoGeometry, 0, 1}]

\* radiance read at a hit point (previous bounce) and from the probe
HitRadiance == 3
ProbeRadiance == 2

\* what the payload registers u1..u3 may hold before they are written
PayloadJunk == {0, 5}

\* diffuse albedo of the texel
DiffuseColors == {1, 2}

\* OptiX runs the closest-hit program for geometry within [tmin, tmax] and
\* the miss program otherwise
ClosestHitRuns(dist, tmax) == dist # NoGeometry /\ dist <= tmax

\* if (dot(randomDir, normal) < 0) randomDir = -randomDir: dot of the
\* direction that is traced
TracedDot(dot) == IF dot < 0 THEN -dot ELSE dot

\* variant: the flag keeps what the previous sample left in it
HybridFlagKept(u0) == u0

\* prd.hitFound = 0; u0 = prd.hitFound
HybridFlagReset(u0) == 0

\* payload registers << u0, u1..u3 >> after optixTrace of the hybrid
\* kernel: the closest-hit program stores hitFound = 1 and the radiance at
\* the hit, the miss program stores nothing
HybridTrace(regs, dist) ==
  IF ClosestHitRuns(dist, TRACING_RANGE) THEN << 1, HitRadiance >> ELSE regs

\* float cosContribution = dot(randomDir, normalize(uvNormal3f)), taken
\* before the direction is inverted
HybridCosContribution(dot) == dot

\* if (u0 == 1)
HybridTakesTraced(regs, dist) == regs[1] = 1

\* one iteration of the sample loop of the hybrid kernel on thread state th
HybridSampleStep(th) ==
  LET in == th.inputs[th.s + 1]
      before == << HybridFlagReset(th.regs[1]), th.regs[2] >>
      after == HybridTrace(before, in.dist)
      cosContribution == HybridCosContribution(in.dot)
      traced == HybridTakesTraced(after, in.dist)
      added == IF traced THEN cosContribution * after[2]
               ELSE cosContribution * ProbeRadiance
  IN  [th EXCEPT !.s = @ + 1,
                 !.regs = after,
                 !.totalRadiance = @ + added,
                 !.log = Append(@, [tracedDot |-> TracedDot(in.dot),
                                    cosContribution |-> cosContribution,
                                    closestHit |-> ClosestHitRuns(in.dist, TRACING_RANGE),
                                    flagAtTrace |-> before[1],
                                    branch |-> IF traced THEN "traced" ELSE "probe",
                                    added |-> added])]

\* a value divided by samples * pi * PI: numerator and the two factors of
\* the divisor
Estimate(num, samples, pi) == [num |-> num, samples |-> samples, pi |-> pi]

\* totalRadiance *= diffuseColor; r = totalRadiance.x /
\* (float(NUM_SAMPLES_HEMISPHERE) * 2 * PI)
HybridResult(th) == Estimate(th.totalRadiance * th.diffuseColor, SamplesPerThread, 2)

\* payload registers after optixTrace of the unbiased kernel: the
\* closest-hit program stores the radiance at the hit, the miss program 0
UnbiasedTrace(dist) == IF ClosestHitRuns(dist, UnbiasedTMax) THEN HitRadiance ELSE 0

\* one iteration of the sample loop of the unbiased kernel: the cosine is
\* taken of the direction that was traced
UnbiasedSampleStep(th) ==
  LET in == th.inputs[th.s + 1]
      cosContribution == TracedDot(in.dot)
      added == cosContribution * UnbiasedTrace(in.dist)
  IN  [th EXCEPT !.s = @ + 1,
                 !.regs = << 0, UnbiasedTrace(in.dist) >>,
                 !.totalRadiance = @ + added,
                 !.numSamples = @ + 1,
                 !.log = Append(@, [tracedDot |-> TracedDot(in.dot),
                                    cosContribution |-> cosContribution,
                                    closestHit |-> ClosestHitRuns(in.dist, UnbiasedTMax),
                                    flagAtTrace |-> 0,
                                    branch |-> "traced",
                                    added |-> added])]

\* r_result = totalRadiance.x / (float(numSamples) * PI)
UnbiasedResult(th) == Estimate(th.totalRadiance, th.numSamples, 1)

NoEstimate == Estimate(0, 0, 0)

\* a thread at the start of its raygen program
ThreadStart(kernel, diffuseColor, junk, inputs) ==
  [kernel |-> kernel, diffuseColor |-> diffuseColor, inputs |-> inputs, s |-> 0,
   regs |-> << junk, junk >>, totalRadiance |-> 0, numSamples |-> 0,
   log |-> << >>, stored |-> FALSE, result |-> NoEstimate]

ScatterThreads ==
  { ThreadStart(k, d, j, in) :
      k \in {"hybrid", "unbiased"}, d \in DiffuseColors, j \in PayloadJunk,
      in \in [1..SamplesPerThread -> SampleInputs] }

\* no thread is followed sample by sample
NoThread == ThreadStart("none", 1, 0, << >>)

\* ------------------------------------------------------------ OctreeBuilder
\* side of the root cube and the depths and texture resolutions tried
OctreeWorldSide == 4
OctreeDepths == {1, 2}
OctreeTextureResolutions == {2, 3}

\* occupied positions a scene can present to the builder
OctreePoints == { <<0, 0, 0>>, <<3, 3, 3>>, <<1, 0, 0>>, <<0, 2, 1>>, <<2, 1, 3>> }

\* leaf markers of the flat array; any other entry is the offset of the
\* eight entries of the node's children
LeafEmpty == 0
LeafFull == 1

OctreeNode(o, s, depth) == [o |-> o, s |-> s, depth |-> depth]

\* octant c of node n
OctreeChild(n, c) ==
  OctreeNode(<< n.o[1] + (c % 2) * (n.s \div 2),
                n.o[2] + ((c \div 2) % 2) * (n.s \div 2),
                n.o[3] + (c \div 4) * (n.s \div 2) >>,
             n.s \div 2, n.depth + 1)

\* a node is non-empty iff its cube holds an occupied position
OctreeNonEmpty(n, pts) ==
  \E p \in pts : \A a \in 1..3 : n.o[a] <= p[a] /\ p[a] < n.o[a] + n.s

\* a non-empty node above the maximum depth is subdivided
OctreeSubdivided(n, maxDepth, pts) == OctreeNonEmpty(n, pts) /\ n.depth < maxDepth

\* breadth-first serialisation: the eight entries of the first node of the
\* queue are appended, a subdivided child getting the offset at which its
\* own eight entries will be written
RECURSIVE SerializeOctree(_, _, _, _, _)
SerializeOctree(queue, arr, nextBase, maxDepth, pts) ==
  IF queue = << >> THEN arr
  ELSE LET n == Head(queue)
           kids == [c \in 1..8 |-> OctreeChild(n, c - 1)]
           Sub(k) == OctreeSubdivided(k, maxDepth, pts)
           rank(c) == Cardinality({ d \in 1..8 : d < c /\ Sub(kids[d]) })
           block == [c \in 1..8 |->
                       IF Sub(kids[c]) THEN nextBase + 8 * rank(c)
                       ELSE IF OctreeNonEmpty(kids[c], pts) THEN LeafFull ELSE LeafEmpty]
       IN  SerializeOctree(Tail(queue) \o SelectSeq(kids, Sub), arr \o block,
                           nextBase + 8 * rank(9), maxDepth, pts)

\* currentCoord after numNodes indirection grids were inserted into a
\* texture of octreeTextureRes grids per axis
OctreeCoord(numNodes, octreeTextureRes) ==
  << numNodes % octreeTextureRes,
     (numNodes \div octreeTextureRes) % octreeTextureRes,
     numNodes \div (octreeTextureRes * octreeTextureRes) >>

\* OctreeBuilder(maxDepth, octreeTextureRes, scene)
OctreeBuilder(maxDepth, octreeTextureRes, pts) ==
  LET arr == SerializeOctree(<< OctreeNode(<<0, 0, 0>>, OctreeWorldSide, 0) >>,
                             << >>, 8, maxDepth, pts)
  IN  [gpuOctree |-> arr, currentCoord |-> OctreeCoord(Len(arr) \div 8, octreeTextureRes)]

getOctree(b) == b.gpuOctree
getTextureDimensions(b) == b.currentCoord

\* a number as the bytes of the file, lowest first, and back
EncodeValue(v) == << v % 256, v \div 256 >>
DecodeValue(bytes) == bytes[1] + 256 * bytes[2]

RECURSIVE EncodeValues(_)
EncodeValues(vals) ==
  IF vals = << >> THEN << >> ELSE EncodeValue(Head(vals)) \o EncodeValues(Tail(vals))

\* saveOctreeToFile: the three texture dimensions, then the flat array
saveOctreeToFile(b) == EncodeValues(b.currentCoord) \o EncodeValues(b.gpuOctree)

\* value number k (from 0) of a file
FileValue(file, k) == DecodeValue(<< file[2 * k + 1], file[2 * k + 2] >>)

\* variant: the dimensions are read back in the order z, y, x
ReadDimensionsReversed(file) ==
  << FileValue(file, 2), FileValue(file, 1), FileValue(file, 0) >>

ReadDimensions(file) ==
  << FileValue(file, 0), FileValue(file, 1), FileValue(file, 2) >>

\* OctreeBuilder(loadOctreePath)
OctreeBuilderLoad(file) ==
  [gpuOctree |-> [k \in 1..((Len(file) \div 2) - 3) |-> FileValue(file, k + 2)],
   currentCoord |-> ReadDimensions(file)]

NoBuilder == [gpuOctree |-> << >>, currentCoord |-> <<0, 0, 0>>]

\* ------------------------------------------------------ the environment
\* what cudaGetDeviceCount can report, and the light texture image
DeviceCounts == {0, 1}
LightFiles == {"present", "missing"}

\* ---------------------------------------------------------------- state
VARIABLES
  scene,              \* the Scene the renderer was constructed with
  pc,                 \* position of the host thread
  grid,               \* scene.grid: texel list per cell and non-empty flags
  texel,              \* loop index i of prepareUVWorldPositions
  UVWorldPositions,   \* per-texel world data (host vector, then uploaded)
  uvsInside,          \* UVsInsideBuffer and UVsInsideOffsets on the device
  mode,               \* PROBE_MODE of the running calculateIndirectLighting
  iter,               \* loop index i of calculateIndirectLighting
  calls,              \* calls of calculateIndirectLighting so far
  nonEmpties,         \* local NonEmptyCells of the running pass
  cellIdx,            \* loop index i over nonEmpties of the running pass
  stream,             \* launches issued to the CUDA stream, not yet complete
  sinceSync,          \* passes with a launch issued since the last host sync
  passLog,            \* passes started so far, in order
  cellIndexUses,      \* the cell sequence each buffer was indexed with
  SHBuffers,          \* SHWeightsDataBuffer and numSamplesAccumulatorsBuffer
  weightsFile,        \* lines of ../weights.txt
  passSamples,        \* samples delivered in the most recent gather pass
  shDivisors,         \* sample counts divided by in the most recent pass
  textures,           \* direct, second and third bounce texture on the device
  lightDataBuffer,    \* device light buffer beyond its uploaded elements
  samplesDelivered,   \* samples delivered to the SH accumulators so far
  octreeBuilder,      \* the OctreeBuilder that was built from a scene
  octreeFile,         \* bytes of the saved octree file
  loadedBuilder,      \* the OctreeBuilder constructed from the file
  octreePc,           \* what was done with the octree so far
  frameSize,          \* launchParams.frame.size of the render pipeline
  colorBuffer,        \* size in bytes of the CUDA frame buffer
  camera,             \* the frame size the camera's aspect was computed from
  frameLaunches,      \* dimensions of the render launches issued
  frameCalls,         \* calls of render and resize so far
  lastFrameCall,      \* the most recent call of render or resize, and whether
                      \* the size handed to resize had a zero component
  numDevices,         \* what cudaGetDeviceCount reports
  optixContext,       \* whether createContext has created the device context
  pipelines,          \* whether the five pipelines have been built
  exception,          \* message of the exception that ended the constructor
  lightFile,          \* whether the light texture image can be loaded
  lightSourceTexture, \* the device buffer of the light source texture
  lightSourcePixels,  \* the pixels of the light texture image
  cubeMaps,           \* the cubemap buffer on the device
  cubeRays,           \* what the geometry answers to a cubemap launch
  probeOffset,        \* launchParams.probeOffset of the cubemap gather pipeline
  scatterThread,      \* one thread of a scatter kernel, followed sample by sample
  faults              \* steps that read a device buffer that was never allocated

vars == << scene, pc, grid, texel, UVWorldPositions, uvsInside, mode, iter,
           calls, nonEmpties, cellIdx, stream, sinceSync, passLog,
           cellIndexUses, SHBuffers, weightsFile, passSamples, shDivisors,
           textures, lightDataBuffer, samplesDelivered,
           octreeBuilder, octreeFile, loadedBuilder, octreePc,
           frameSize, colorBuffer, camera, frameLaunches, frameCalls, lastFrameCall,
           numDevices, optixContext, pipelines, exception, lightFile,
           lightSourceTexture, faults,
           lightSourcePixels, cubeMaps, cubeRays, probeOffset, scatterThread >>

gridVars == << grid, texel, UVWorldPositions, uvsInside >>
loopVars == << mode, iter, calls >>
shVars == << SHBuffers, weightsFile, passSamples, shDivisors >>
texVars == << textures, lightDataBuffer >>
octreeVars == << octreeBuilder, octreeFile, loadedBuilder, octreePc >>
cubeEnv == << lightSourcePixels, cubeRays, probeOffset >>
cubeVars == << cubeMaps, cubeEnv >>
passVars == << cubeVars, scatterThread >>
frameVars == << frameSize, colorBuffer, camera, frameLaunches, frameCalls, lastFrameCall >>
startupVars == << numDevices, optixContext, pipelines, exception, lightFile,
                 lightSourceTexture, faults >>
restVars == << texVars, samplesDelivered, octreeVars, passVars, frameVars, startupVars >>

InitAny ==
  /\ scene \in Scenes
  /\ pc = "initOptix"
  /\ numDevices \in DeviceCounts
  /\ lightFile \in LightFiles
  /\ optixContext = FALSE
  /\ pipelines = FALSE
  /\ exception = "none"
  /\ lightSourceTexture = [allocated |-> FALSE]
  /\ faults = {}
  /\ grid = EmptyGrid(scene)
  /\ texel = 0
  /\ UVWorldPositions = << >>
  /\ uvsInside = [uvs |-> << >>, offsets |-> << >>]
  /\ mode = "none"
  /\ iter = 0
  /\ calls = 0
  /\ nonEmpties = << >>
  /\ cellIdx = 0
  /\ stream = << >>
  /\ sinceSync = {}
  /\ passLog = << >>
  /\ cellIndexUses = {}
  /\ SHBuffers = [weights |-> << >>, numSamples |-> << >>]
  /\ weightsFile = << >>
  /\ passSamples = << >>
  /\ shDivisors = {}
  /\ textures = [n \in TextureNames |-> << >>]
  /\ lightDataBuffer = [l \in { l \in 0..(TexSize - 1) : l >= UploadedLights } |-> << 0, 0, 0 >>]
  /\ samplesDelivered = 0
  /\ octreeBuilder = NoBuilder
  /\ octreeFile = << >>
  /\ loadedBuilder = NoBuilder
  /\ octreePc = "none"
  /\ frameSize = << 0, 0 >>
  /\ colorBuffer = 0
  /\ camera = << 0, 0 >>
  /\ frameLaunches = {}
  /\ frameCalls = 0
  /\ lastFrameCall = [op |-> "none", minimized |-> FALSE]
  /\ cubeMaps = << >>
  /\ lightSourcePixels \in LightSourceImages
  /\ cubeRays \in CubeMapRayOutcomes
  /\ probeOffset \in ProbeOffsetValues
  /\ scatterThread \in ScatterThreads \cup {NoThread}

\* one light texture image, a probe from which every ray escapes and a
\* zero probeOffset
CubeMapEnvFixed ==
  /\ lightSourcePixels = [i \in 1..NumTexels |-> ColorWord(255 + 65536 * 128, 0)]
  /\ cubeRays = [t \in CubeMapLaunchGrid |-> RayMiss]
  /\ probeOffset = 0
  /\ scatterThread = NoThread

\* the renderer is started where its light texture image is in place
Init == InitAny /\ lightFile = "present" /\ CubeMapEnvFixed

\* ------------------------------------------------------------ the device
\* a launch on the stream
Launch(pass, i, cells) ==
  [pass |-> pass, call |-> calls, iter |-> iter, cellIndex |-> i,
   cell |-> IF i < Len(cells) THEN cells[i + 1] ELSE << >>]

PassId(l) == << l.pass, l.call, l.iter >>

\* a thread of the running SH gather launch (the first of the stream)
\* delivers one sample with atomic adds; threads deliver in any order
GatherThreadAccumulate ==
  /\ stream # << >>
  /\ Head(stream).pass = "gatherSH"
  /\ Len(passSamples) < MaxSamplesPerPass
  /\ samplesDelivered < MaxSamples
  /\ samplesDelivered' = samplesDelivered + 1
  /\ \E e \in 1..Len(SampleTable) :
       /\ SHBuffers' = AccumulateSample(SHBuffers, Head(stream).cellIndex, SampleTable[e])
       /\ passSamples' = Append(passSamples, [cellIndex |-> Head(stream).cellIndex,
                                              sample |-> SampleTable[e]])
  /\ UNCHANGED << scene, pc, gridVars, loopVars, nonEmpties, cellIdx, stream,
                  sinceSync, passLog, cellIndexUses, weightsFile, shDivisors, texVars,
                  octreeVars, passVars, frameVars, startupVars >>

\* the gather kernels of bounce 0 read launchParams.lightSourceTexture
ReadsLightSourceTexture(l) ==
  l.pass \in {"gatherSH", "gatherCubeMap"} /\ GatherSource(l.iter) = "lightSourceTexture"

\* the first launch of the stream completes; launches of one stream run in
\* the order issued.  The direct and the scatter kernel store their texels.
DeviceComplete ==
  /\ stream # << >>
  /\ stream' = Tail(stream)
  /\ UNCHANGED << SHBuffers, passSamples >>
  /\ IF Head(stream).pass = "direct"
     THEN \E last \in LastStores(TraceOutcome(scene)) :
            textures' = [textures EXCEPT !["directLightingTexture"] =
                           DirectLightingKernel(@, TraceOutcome(scene), lightDataBuffer, last)]
     ELSE IF Head(stream).pass = "scatter"
     THEN LET l == Head(stream)
              width == Len(grid.uvs[l.cell])
          IN  \E last \in ScatterLastStores(uvsInside, l, width) :
                textures' = [textures EXCEPT ![ScatterDestination(l.iter)] =
                               ScatterKernel(@, SHBuffers, uvsInside, l, width, last)]
     ELSE UNCHANGED textures
  /\ IF Head(stream).pass = "gatherCubeMap" /\ lightSourceTexture.allocated
     THEN \E last \in CubeMapLastStores(probeOffset) :
            cubeMaps' = CubeMapGatherKernel(cubeMaps, lightSourcePixels, cubeRays,
                                            probeOffset, Head(stream).cellIndex, last)
     ELSE UNCHANGED cubeMaps
  /\ UNCHANGED << cubeEnv, scatterThread >>
  /\ IF ReadsLightSourceTexture(Head(stream)) /\ ~lightSourceTexture.allocated
     THEN /\ faults' = faults \cup {Head(stream).pass}
          /\ pc' \in {pc, "failed"}
     ELSE UNCHANGED << faults, pc >>
  /\ UNCHANGED << scene, gridVars, loopVars, nonEmpties, cellIdx, sinceSync,
                  passLog, cellIndexUses, weightsFile, shDivisors, lightDataBuffer,
                  samplesDelivered, octreeVars, frameVars, numDevices, optixContext,
                  pipelines, exception, lightFile, lightSourceTexture >>

\* ------------------------------------------------------- the constructor
\* variant: the device count is not looked at
NoDeviceFoundNever(n) == FALSE

\* if (numDevices == 0) throw std::runtime_error(...)
NoDeviceFound(n) == n = 0

\* Renderer::initOptix; the updateCamera that follows it in the constructor
\* finds no pipeline yet and does nothing
InitOptix ==
  /\ pc = "initOptix"
  /\ IF NoDeviceFound(numDevices)
     THEN /\ exception' = "No CUDA capable devices found!"
          /\ pc' = "failed"
     ELSE /\ pc' = "createContext"
          /\ UNCHANGED exception
  /\ UNCHANGED << scene, gridVars, loopVars, nonEmpties, cellIdx, stream, sinceSync,
                  passLog, cellIndexUses, shVars, texVars, samplesDelivered,
                  octreeVars, passVars, frameVars, numDevices, optixContext, pipelines,
                  lightFile, lightSourceTexture, faults >>

\* Renderer::createContext
CreateContext ==
  /\ pc = "createContext"
  /\ optixContext' = TRUE
  /\ pc' = "fillGeometryBuffers"
  /\ UNCHANGED << scene, gridVars, loopVars, nonEmpties, cellIdx, stream, sinceSync,
                  passLog, cellIndexUses, shVars, texVars, samplesDelivered,
                  octreeVars, passVars, frameVars, numDevices, pipelines, exception,
                  lightFile, lightSourceTexture, faults >>

\* Renderer::fillGeometryBuffers: one vertex/index buffer per non-empty cell
FillGeometryBuffers ==
  /\ pc = "fillGeometryBuffers"
  /\ cellIndexUses' = cellIndexUses \cup
       {[use |-> "radianceGridBuffers", cells |-> getNonEmptyCells(scene, grid)]}
  /\ pc' = "setupPipelines"
  /\ UNCHANGED << scene, gridVars, loopVars, nonEmpties, cellIdx, stream,
                  sinceSync, passLog, shVars, restVars >>

\* the five pipelines are made
SetupPipelines ==
  /\ pc = "setupPipelines"
  /\ pipelines' = TRUE
  /\ pc' = "initLightingTextures"
  /\ UNCHANGED << scene, gridVars, loopVars, nonEmpties, cellIdx, stream, sinceSync,
                  passLog, cellIndexUses, shVars, texVars, samplesDelivered,
                  octreeVars, passVars, frameVars, numDevices, optixContext, exception,
                  lightFile, lightSourceTexture, faults >>

\* initLightProbeCubeMaps and initLightingTextures: zero-filled buffers
InitLightingTextures ==
  /\ pc = "initLightingTextures"
  /\ cubeMaps' = initLightProbeCubeMaps(cubeMapResolution, cubeMapAmount)
  /\ textures' = initLightingTextures(TexSize)
  /\ pc' = "prepareUVWorldPositions"
  /\ UNCHANGED << scene, gridVars, loopVars, nonEmpties, cellIdx, stream,
                  sinceSync, passLog, cellIndexUses, shVars, lightDataBuffer,
                  samplesDelivered, octreeVars, cubeEnv, scatterThread, frameVars,
                  startupVars >>

\* uv coordinate prepareUVWorldPositions passes on for texel i
AssignedUV(i) == TexelUV(i)

\* variant: the normal of the record is passed on instead of the position
AssignedPositionNormal(sc, i) == UVto3D(sc, TexelUV(i)).worldNormal

\* variant: the record of the transposed texel is passed on
AssignedPositionTransposed(sc, i) ==
  UVto3D(sc, << TexelUV(i)[2], TexelUV(i)[1] >>).worldPosition

\* world position prepareUVWorldPositions passes on for texel i
AssignedPosition(sc, i) == UVto3D(sc, TexelUV(i)).worldPosition

\* one iteration of the loop of Renderer::prepareUVWorldPositions
PrepareUVWorldPosition ==
  /\ pc = "prepareUVWorldPositions"
  /\ texel < NumTexels
  /\ UVWorldPositions' = Append(UVWorldPositions, UVto3D(scene, TexelUV(texel)))
  /\ grid' = assignUVToCells(scene, grid, AssignedUV(texel), AssignedPosition(scene, texel))
  /\ texel' = texel + 1
  /\ UNCHANGED << scene, pc, uvsInside, loopVars, nonEmpties, cellIdx, stream,
                  sinceSync, passLog, cellIndexUses, shVars, restVars >>

\* the loop ends: the world data is uploaded
UploadUVWorldPositions ==
  /\ pc = "prepareUVWorldPositions"
  /\ texel = NumTexels
  /\ pc' = "prepareUVsInsideBuffer"
  /\ UNCHANGED << scene, gridVars, loopVars, nonEmpties, cellIdx, stream,
                  sinceSync, passLog, cellIndexUses, shVars, restVars >>

RECURSIVE FlattenUVs(_, _, _)
FlattenUVs(g, cells, k) ==
  IF k > Len(cells) THEN [uvs |-> << >>, offsets |-> << >>]
  ELSE LET rest == FlattenUVs(g, cells, k + 1)
           mine == g.uvs[cells[k]]
       IN  [uvs |-> mine \o rest.uvs,
            offsets |-> << 0 >> \o [j \in 1..Len(rest.offsets) |-> rest.offsets[j] + Len(mine)]]

\* Renderer::prepareUVsInsideBuffer
PrepareUVsInsideBuffer ==
  /\ pc = "prepareUVsInsideBuffer"
  /\ uvsInside' = FlattenUVs(grid, getNonEmptyCells(scene, grid), 1)
  /\ cellIndexUses' = cellIndexUses \cup
       {[use |-> "uvsInsideOffsets", cells |-> getNonEmptyCells(scene, grid)]}
  /\ pc' = "loadLightTexture"
  /\ UNCHANGED << scene, grid, texel, UVWorldPositions, loopVars, nonEmpties,
                  cellIdx, stream, sinceSync, passLog, shVars, restVars >>

\* Renderer::loadLightTexture: when stbi_load gives no pixels the failure is
\* logged and the function returns; else the buffer is allocated and filled
LoadLightTexture ==
  /\ pc = "loadLightTexture"
  /\ lightSourceTexture' = IF lightFile = "missing" THEN lightSourceTexture
                           ELSE [allocated |-> TRUE]
  /\ pc' = "downloadAndWriteLightSourceTexture"
  /\ UNCHANGED << scene, gridVars, loopVars, nonEmpties, cellIdx, stream, sinceSync,
                  passLog, cellIndexUses, shVars, texVars, samplesDelivered,
                  octreeVars, passVars, frameVars, numDevices, optixContext, pipelines,
                  exception, lightFile, faults >>

\* Renderer::downloadAndWriteLightSourceTexture: 1024*1024*4 bytes are
\* downloaded from lightSourceTexture; a download from a buffer that was not
\* allocated ends the run or hands over whatever the copy left
DownloadAndWriteLightSourceTexture ==
  /\ pc = "downloadAndWriteLightSourceTexture"
  /\ IF lightSourceTexture.allocated
     THEN /\ pc' = "calculateDirectLighting"
          /\ UNCHANGED faults
     ELSE /\ faults' = faults \cup {"downloadAndWriteLightSourceTexture"}
          /\ pc' \in {"calculateDirectLighting", "failed"}
  /\ UNCHANGED << scene, gridVars, loopVars, nonEmpties, cellIdx, stream, sinceSync,
                  passLog, cellIndexUses, shVars, texVars, samplesDelivered,
                  octreeVars, passVars, frameVars, numDevices, optixContext, pipelines,
                  exception, lightFile, lightSourceTexture >>

\* Renderer::calculateDirectLighting up to its optixLaunch
CalculateDirectLighting ==
  /\ pc = "calculateDirectLighting"
  /\ \E tail \in LightBufferTails : lightDataBuffer' = tail
  /\ stream' = Append(stream, Launch("direct", 0, << >>))
  /\ sinceSync' = sinceSync \cup {PassId(Launch("direct", 0, << >>))}
  /\ passLog' = Append(passLog, [pass |-> "direct", mode |-> "none", iter |-> 0,
                                 src |-> "lights", dst |-> "directLightingTexture"])
  /\ pc' = "directSync"
  /\ UNCHANGED << scene, gridVars, loopVars, nonEmpties, cellIdx, cellIndexUses, shVars, textures,
                  samplesDelivered, octreeVars, passVars, frameVars, startupVars >>

\* CUDA_SYNC_CHECK of calculateDirectLighting, download and image write
DirectLightingSync ==
  /\ pc = "directSync"
  /\ stream = << >>
  /\ sinceSync' = {}
  /\ pc' = "calculateIndirectLighting"
  /\ UNCHANGED << scene, gridVars, loopVars, nonEmpties, cellIdx, stream,
                  passLog, cellIndexUses, shVars, restVars >>

\* ------------------------------------------------ calculateIndirectLighting
\* the call at the end of the constructor
ConstructorIndirectLighting ==
  /\ pc = "calculateIndirectLighting"
  /\ mode' = ConstructorProbeMode
  /\ iter' = 0
  /\ calls' = calls + 1
  /\ pc' = "bounceLoop"
  /\ UNCHANGED << scene, gridVars, nonEmpties, cellIdx, stream, sinceSync,
                  passLog, cellIndexUses, shVars, restVars >>

\* a later call of calculateIndirectLighting(m) on the constructed renderer
CallIndirectLighting(m) ==
  /\ pc = "idle"
  /\ calls < MaxIndirectCalls
  /\ mode' = m
  /\ iter' = 0
  /\ calls' = calls + 1
  /\ pc' = "bounceLoop"
  /\ UNCHANGED << scene, gridVars, nonEmpties, cellIdx, stream, sinceSync,
                  passLog, cellIndexUses, shVars, restVars >>

\* head of the bounce loop: for (int i = 0; i < 1; i++) switch (i)
BounceLoop ==
  /\ pc = "bounceLoop"
  /\ IF iter < NUM_BOUNCE_ITERATIONS
     THEN IF GatherSource(iter) # "none"
          THEN pc' = "gather" /\ iter' = iter
          ELSE pc' = "bounceLoop" /\ iter' = iter + 1
     ELSE pc' = "idle" /\ iter' = iter
  /\ UNCHANGED << scene, gridVars, mode, calls, nonEmpties, cellIdx, stream,
                  sinceSync, passLog, cellIndexUses, shVars, restVars >>

GatherPassName == IF mode = "SPHERICAL_HARMONICS" THEN "gatherSH" ELSE "gatherCubeMap"

\* calculateRadianceCellGatherPass / ...CubeMap up to the launch loop: the
\* cell centers are uploaded, the source texture is bound and, in SH mode,
\* the SH buffers are re-initialised
GatherSetup ==
  /\ pc = "gather"
  /\ nonEmpties' = getNonEmptyCells(scene, grid)
  /\ cellIdx' = 0
  /\ cellIndexUses' = cellIndexUses \cup
       {[use |-> "nonEmptyCellData", cells |-> getNonEmptyCells(scene, grid)]}
  /\ passLog' = Append(passLog,
       [pass |-> GatherPassName, mode |-> mode, iter |-> iter,
        src |-> GatherSource(iter),
        dst |-> IF mode = "SPHERICAL_HARMONICS" THEN "SHWeightsDataBuffer" ELSE "cubeMaps"])
  /\ IF mode = "SPHERICAL_HARMONICS"
     THEN /\ SHBuffers' = initSHWeightsBuffer(Len(getNonEmptyCells(scene, grid)))
          /\ passSamples' = << >>
     ELSE UNCHANGED << SHBuffers, passSamples >>
  /\ pc' = "gatherLaunch"
  /\ UNCHANGED << scene, gridVars, loopVars, stream, sinceSync, weightsFile, shDivisors, restVars >>

\* one optixLaunch of the gather loop over the non-empty cells
GatherLaunch ==
  /\ pc = "gatherLaunch"
  /\ cellIdx < Len(nonEmpties)
  /\ stream' = Append(stream, Launch(GatherPassName, cellIdx, nonEmpties))
  /\ sinceSync' = sinceSync \cup {PassId(Launch(GatherPassName, cellIdx, nonEmpties))}
  /\ cellIdx' = cellIdx + 1
  /\ UNCHANGED << scene, pc, gridVars, loopVars, nonEmpties, passLog,
                  cellIndexUses, shVars, restVars >>

\* SH gather: CUDA_SYNC_CHECK after the launch loop
GatherSync ==
  /\ pc = "gatherLaunch"
  /\ cellIdx = Len(nonEmpties)
  /\ mode = "SPHERICAL_HARMONICS"
  /\ stream = << >>
  /\ sinceSync' = {}
  /\ pc' = "gatherNormalize"
  /\ UNCHANGED << scene, gridVars, loopVars, nonEmpties, cellIdx, stream,
                  passLog, cellIndexUses, shVars, restVars >>

\* SH gather: download, writeWeightsToTxtFile, normalisation, upload
GatherNormalize ==
  /\ pc = "gatherNormalize"
  /\ weightsFile' = writeWeightsToTxtFile(SHBuffers.weights, SHBuffers.numSamples,
                                          Len(nonEmpties))
  /\ SHBuffers' = [SHBuffers EXCEPT
                     !.weights = NormalizeWeights(SHBuffers.weights, SHBuffers.numSamples)]
  /\ shDivisors' = DivisorsOf(SHBuffers.numSamples)
  /\ pc' = "scatter"
  /\ UNCHANGED << scene, gridVars, loopVars, nonEmpties, cellIdx, stream,
                  sinceSync, passLog, cellIndexUses, passSamples, restVars >>

\* cubemap gather: after the launch loop one cubemap face is downloaded and
\* written to an image; the function returns without CUDA_SYNC_CHECK
GatherCubeMapDownload ==
  /\ pc = "gatherLaunch"
  /\ cellIdx = Len(nonEmpties)
  /\ mode = "CUBE_MAP"
  /\ pc' = "scatter"
  /\ UNCHANGED << scene, gridVars, loopVars, nonEmpties, cellIdx, stream,
                  sinceSync, passLog, cellIndexUses, shVars, restVars >>

\* the probe buffer calculateRadianceCellScatterPass binds for the kernel:
\* sphericalHarmonicsWeights.weights = SHWeightsDataBuffer, whatever the mode
ScatterProbeBuffer(m) == "SHWeightsDataBuffer"

\* calculateRadianceCellScatterPass: the non-empty cells are fetched
ScatterSetup ==
  /\ pc = "scatter"
  /\ nonEmpties' = getNonEmptyCells(scene, grid)
  /\ cellIdx' = 0
  /\ cellIndexUses' = cellIndexUses \cup
       {[use |-> "scatterLaunch", cells |-> getNonEmptyCells(scene, grid)]}
  /\ passLog' = Append(passLog,
       [pass |-> "scatter", mode |-> mode, iter |-> iter,
        src |-> ScatterProbeBuffer(mode),
        dst |-> ScatterDestination(iter)])
  /\ pc' = "scatterLaunch"
  /\ UNCHANGED << scene, gridVars, loopVars, stream, sinceSync, shVars, restVars >>

\* the optixLaunch for one cell, cellUVs.size() threads wide
ScatterLaunch ==
  /\ pc = "scatterLaunch"
  /\ cellIdx < Len(nonEmpties)
  /\ stream' = Append(stream, Launch("scatter", cellIdx, nonEmpties))
  /\ sinceSync' = sinceSync \cup {PassId(Launch("scatter", cellIdx, nonEmpties))}
  /\ pc' = "scatterSync"
  /\ UNCHANGED << scene, gridVars, loopVars, nonEmpties, cellIdx, passLog,
                  cellIndexUses, shVars, restVars >>

\* the CUDA_SYNC_CHECK after each scatter launch
ScatterSync ==
  /\ pc = "scatterSync"
  /\ stream = << >>
  /\ sinceSync' = {}
  /\ cellIdx' = cellIdx + 1
  /\ pc' = "scatterLaunch"
  /\ UNCHANGED << scene, gridVars, loopVars, nonEmpties, stream, passLog,
                  cellIndexUses, shVars, restVars >>

\* after the loop: the destination texture is downloaded and written to an
\* image; back in calculateIndirectLighting the loop index advances
ScatterDownload ==
  /\ pc = "scatterLaunch"
  /\ cellIdx = Len(nonEmpties)
  /\ iter' = iter + 1
  /\ pc' = "bounceLoop"
  /\ UNCHANGED << scene, gridVars, mode, calls, nonEmpties, cellIdx, stream,
                  sinceSync, passLog, cellIndexUses, shVars, restVars >>

Next ==
  \/ DeviceComplete
  \/ GatherThreadAccumulate
  \/ InitOptix
  \/ CreateContext
  \/ FillGeometryBuffers
  \/ SetupPipelines
  \/ InitLightingTextures
  \/ PrepareUVWorldPosition
  \/ UploadUVWorldPositions
  \/ PrepareUVsInsideBuffer
  \/ LoadLightTexture
  \/ DownloadAndWriteLightSourceTexture
  \/ CalculateDirectLighting
  \/ DirectLightingSync
  \/ ConstructorIndirectLighting
  \/ \E m \in ProbeModes : CallIndirectLighting(m)
  \/ BounceLoop
  \/ GatherSetup
  \/ GatherLaunch
  \/ GatherSync
  \/ GatherNormalize
  \/ GatherCubeMapDownload
  \/ ScatterSetup
  \/ ScatterLaunch
  \/ ScatterSync
  \/ ScatterDownload

Spec == Init /\ [][Next]_vars

\* ------------------------------------------------- the octree, on its own
\* everything but the octree
rendererVars == << scene, pc, grid, texel, UVWorldPositions, uvsInside, mode, iter,
                   calls, nonEmpties, cellIdx, stream, sinceSync, passLog,
                   cellIndexUses, SHBuffers, weightsFile, passSamples, shDivisors,
                   textures, lightDataBuffer, samplesDelivered, startupVars,
                   passVars >>

\* everything but the thread followed sample by sample
hostVars == << scene, pc, gridVars, loopVars, nonEmpties, cellIdx, stream, sinceSync,
               passLog, cellIndexUses, shVars, texVars, samplesDelivered,
               octreeVars, cubeVars, frameVars, startupVars >>

BuildOctree(maxDepth, octreeTextureRes, pts) ==
  /\ octreePc = "none"
  /\ octreeBuilder' = OctreeBuilder(maxDepth, octreeTextureRes, pts)
  /\ octreePc' = "built"
  /\ UNCHANGED << rendererVars, frameVars, octreeFile, loadedBuilder >>

SaveOctreeToFile ==
  /\ octreePc = "built"
  /\ octreeFile' = saveOctreeToFile(octreeBuilder)
  /\ octreePc' = "saved"
  /\ UNCHANGED << rendererVars, frameVars, octreeBuilder, loadedBuilder >>

LoadOctree ==
  /\ octreePc = "saved"
  /\ loadedBuilder' = OctreeBuilderLoad(octreeFile)
  /\ octreePc' = "loaded"
  /\ UNCHANGED << rendererVars, frameVars, octreeBuilder, octreeFile >>

InitOctree == Init /\ scene = SceneEmpty

NextOctree ==
  \/ \E maxDepth \in OctreeDepths, res \in OctreeTextureResolutions, pts \in SUBSET OctreePoints :
       BuildOctree(maxDepth, res, pts)
  \/ SaveOctreeToFile
  \/ LoadOctree

SpecOctree == InitOctree /\ [][NextOctree]_vars

\* ------------------------------------------------------ render and resize
\* window sizes handed to resize
FrameSizes == (0..MaxFrameWidth) \X (0..1)

\* variant: only a window without any extent is taken as minimized
ResizeIgnoredBothZero(newSize) == newSize[1] = 0 /\ newSize[2] = 0

\* if (newSize.x == 0 | newSize.y == 0) return;
ResizeIgnored(newSize) == newSize[1] = 0 \/ newSize[2] = 0

\* if (tutorialPipeline->launchParams.frame.size.x == 0) return;
RenderIgnored(size) == size[1] = 0

\* Renderer::render: nothing for a frame without width, else one launch of
\* frame.size.x by frame.size.y threads and the wait for it
Render ==
  /\ pc = "idle"
  /\ stream = << >>
  /\ frameCalls < MaxFrameCalls
  /\ frameCalls' = frameCalls + 1
  /\ lastFrameCall' = [op |-> "render", minimized |-> FALSE]
  /\ frameLaunches' = IF RenderIgnored(frameSize) THEN frameLaunches
                      ELSE frameLaunches \cup {frameSize}
  /\ UNCHANGED << rendererVars, octreeVars, frameSize, colorBuffer, camera >>

\* Renderer::resize: nothing for a minimized window, else the frame buffer
\* is resized, the frame size set and the camera updated for the new aspect
Resize(newSize) ==
  /\ pc = "idle"
  /\ frameCalls < MaxFrameCalls
  /\ frameCalls' = frameCalls + 1
  /\ lastFrameCall' = [op |-> "resize", minimized |-> newSize[1] = 0 \/ newSize[2] = 0]
  /\ IF ResizeIgnored(newSize)
     THEN UNCHANGED << frameSize, colorBuffer, camera >>
     ELSE /\ colorBuffer' = newSize[1] * newSize[2] * 4
          /\ frameSize' = newSize
          /\ camera' = newSize
  /\ UNCHANGED << rendererVars, octreeVars, frameLaunches >>

InitFrame == Init /\ scene = SceneCorner

NextFrame ==
  \/ Next
  \/ Render
  \/ \E newSize \in FrameSizes : Resize(newSize)

SpecFrame == InitFrame /\ [][NextFrame]_vars

\* ------------------------------------ start-up without the light texture
InitLight == InitAny /\ scene = SceneCorner /\ CubeMapEnvFixed

SpecLight == InitLight /\ [][Next]_vars

\* --------------------------------- the cubemap probes and their environment
InitCubeMap ==
  InitAny /\ scene = SceneCorner /\ lightFile = "present" /\ scatterThread = NoThread

SpecCubeMap == InitCubeMap /\ [][Next]_vars

\* ------------------------------------------- a scatter thread, on its own
\* an iteration of the sample loop of __raygen__renderFrame__cell__scattering
HybridSample ==
  /\ scatterThread.kernel = "hybrid"
  /\ scatterThread.s < SamplesPerThread
  /\ scatterThread' = HybridSampleStep(scatterThread)
  /\ UNCHANGED hostVars

\* ... and its store after the loop
HybridStore ==
  /\ scatterThread.kernel = "hybrid"
  /\ scatterThread.s = SamplesPerThread
  /\ ~scatterThread.stored
  /\ scatterThread' = [scatterThread EXCEPT !.stored = TRUE,
                                            !.result = HybridResult(scatterThread)]
  /\ UNCHANGED hostVars

\* an iteration of the sample loop of
\* __raygen__renderFrame__cell__scattering__unbiased
UnbiasedSample ==
  /\ scatterThread.kernel = "unbiased"
  /\ scatterThread.s < SamplesPerThread
  /\ scatterThread' = UnbiasedSampleStep(scatterThread)
  /\ UNCHANGED hostVars

\* ... and its store after the loop
UnbiasedStore ==
  /\ scatterThread.kernel = "unbiased"
  /\ scatterThread.s = SamplesPerThread
  /\ ~scatterThread.stored
  /\ scatterThread' = [scatterThread EXCEPT !.stored = TRUE,
                                            !.result = UnbiasedResult(scatterThread)]
  /\ UNCHANGED hostVars

InitScatter ==
  /\ InitAny /\ lightFile = "present" /\ scene = SceneEmpty /\ numDevices = 1
  /\ lightSourcePixels = [i \in 1..NumTexels |-> ColorWord(255 + 65536 * 128, 0)]
  /\ cubeRays = [t \in CubeMapLaunchGrid |-> RayMiss]
  /\ probeOffset = 0
  /\ scatterThread # NoThread

NextScatter ==
  \/ HybridSample
  \/ HybridStore
  \/ UnbiasedSample
  \/ UnbiasedStore

SpecScatter == InitScatter /\ [][NextScatter]_vars

\* =================================================================== claims

\* C1: between the last launch of a pass and the first launch of the next
\* pass lies a host synchronization point, in both probe modes: the passes
\* with a launch issued since the last host synchronization are never two.
C1_SyncBetweenPasses == \A p, q \in sinceSync : p = q

\* C2: in every bounce iteration the gather pass comes before the scatter
\* pass, and the gather pass of iteration k is handed the texture written
\* by the immediately preceding pass: the direct-lighting output for k = 0,
\* the destination of scatter pass k-1 afterwards.
C2_IsGather(e) == e.pass \in {"gatherSH", "gatherCubeMap"}

C2_GatherReadsPrecedingPass ==
  \A k \in 1..Len(passLog) :
     /\ C2_IsGather(passLog[k]) =>
          /\ k > 1
          /\ IF passLog[k].iter = 0
             THEN passLog[k].src = "directLightingTexture"
             ELSE /\ passLog[k - 1].pass = "scatter"
                  /\ passLog[k - 1].iter = passLog[k].iter - 1
                  /\ passLog[k].src = passLog[k - 1].dst
     /\ passLog[k].pass = "scatter" =>
          /\ k > 1
          /\ C2_IsGather(passLog[k - 1])
          /\ passLog[k - 1].iter = passLog[k].iter

\* C3: after the direct pass every call of calculateIndirectLighting runs,
\* for each of the N bounce iterations in order, exactly one gather pass
\* followed by exactly one scatter pass writing the texture of its own
\* bounce order, and then terminates.
C3_BounceTexture(order) ==
  IF order = 1 THEN "directLightingTexture"
  ELSE IF order = 2 THEN "secondBounceTexture"
  ELSE IF order = 3 THEN "thirdBounceTexture"
  ELSE "none"

C3_PassesPerCall == 2 * NUM_BOUNCE_ITERATIONS

C4_CanonicalCellIndex == \A a, b \in cellIndexUses : a.cells = b.cells

\* C5 (as stated): for every world position, assigning texel uv appends uv
\* to the texel list of the cell floor((worldPos - sceneMin) / cellSize),
\* clamped to [0, gridDim - 1], and to no other cell.
C5_Floor(num, den) == CHOOSE q \in -2000..2000 : q * den <= num /\ num < (q + 1) * den

C5_ExpectedCell(sc, pos) ==
  [k \in Axes |->
     LET q == C5_Floor(pos.n[k] - sc.sceneMin[k] * pos.d, sc.cellSize * pos.d)
         hi == GridDim(sc)[k] - 1
     IN  IF q < 0 THEN 0 ELSE IF q > hi THEN hi ELSE q]

C5_WithinBounds(sc, pos) ==
  \A k \in Axes : /\ pos.n[k] >= sc.sceneMin[k] * pos.d
                  /\ pos.n[k] <= sc.sceneMax[k] * pos.d

C5_TexelStep == pc = "prepareUVWorldPositions" /\ texel' = texel + 1

C5_UV(i) == << i % TexSize, i \div TexSize >>

C5_AppendedToExpectedCell ==
  LET pos == UVto3D(scene, C5_UV(texel)).worldPosition
  IN  grid'.uvs = [grid.uvs EXCEPT ![C5_ExpectedCell(scene, pos)] = Append(@, C5_UV(texel))]

C5_AssignsEveryPosition == [][C5_TexelStep => C5_AppendedToExpectedCell]_vars

\* C5 (amended): for every world position inside [sceneMin, sceneMax] the
\* texel is appended to the list of the floored and clamped cell and to no
\* other; for a position outside the bounds no list changes.
C5_AssignsPositionsInBounds ==
  [][C5_TexelStep =>
       IF C5_WithinBounds(scene, UVto3D(scene, C5_UV(texel)).worldPosition)
       THEN C5_AppendedToExpectedCell
       ELSE grid'.uvs = grid.uvs]_vars

\* a texel on the sceneMax boundary was clamped into the last cell
C5_Witness ==
  \E i \in 0..(texel - 1) :
     LET pos == UVWorldPositions[i + 1].worldPosition
     IN  /\ C5_WithinBounds(scene, pos)
         /\ \E k \in Axes : pos.n[k] = scene.sceneMax[k] * pos.d
         /\ \E j \in 1..Len(grid.uvs[C5_ExpectedCell(scene, pos)]) :
               grid.uvs[C5_ExpectedCell(scene, pos)][j] = C5_UV(i)
         /\ C5_ExpectedCell(scene, pos) = [k \in Axes |-> GridDim(scene)[k] - 1]

\* C6: once all texels are processed, a cell is flagged non-empty if and
\* only if its texel list holds a texel whose world position lies inside
\* the cell.
C6_AssignmentDone == pc # "prepareUVWorldPositions" /\ texel = NumTexels

C6_NonEmptyIffTexelInside ==
  C6_AssignmentDone =>
    \A c \in Cells(scene) :
       (c \in grid.nonEmpty) <=>
          (\E j \in 1..Len(grid.uvs[c]) :
              InsideCell(scene, c, UVto3D(scene, grid.uvs[c][j]).worldPosition))

C6_Witness ==
  /\ C6_AssignmentDone
  /\ \E c \in Cells(scene) : c \in grid.nonEmpty /\ Len(grid.uvs[c]) > 1
  /\ \E c \in Cells(scene) : c \notin grid.nonEmpty /\ grid.uvs[c] = << >>

\* C7: a texel whose world position lies outside [sceneMin, sceneMax], the
\* sentinel of an uncovered texel included, is dropped: no texel list and no
\* non-empty flag changes, and the loop goes on.
C7_Uncovered(sc, uv) == \A k \in 1..Len(SceneTriangles(sc)) : ~TriangleCovers(SceneTriangles(sc)[k], uv)

C7_OutsideIsDropped ==
  [][(C5_TexelStep /\ (\/ C7_Uncovered(scene, C5_UV(texel))
                       \/ ~C5_WithinBounds(scene, UVto3D(scene, C5_UV(texel)).worldPosition)))
       => (grid' = grid /\ pc' = pc)]_vars

\* an uncovered texel and a covered texel outside the bounds were processed
C7_Witness ==
  /\ texel = NumTexels
  /\ grid.nonEmpty # {}
  /\ \E i \in 1..NumTexels :
        \/ UVWorldPositions[i].tri = 0
        \/ ~C5_WithinBounds(scene, UVWorldPositions[i].worldPosition)
  /\ \E i \in 1..NumTexels :
        /\ UVWorldPositions[i].tri # 0
        /\ ~C5_WithinBounds(scene, UVWorldPositions[i].worldPosition)

\* C8: every texel occurs in at most one texel list and at most once in it;
\* after the assignment every covered texel with a position inside the grid
\* occurs exactly once; the flattened uvsInside buffer repeats no texel.
C8_Count(seq, x) == Cardinality({ j \in 1..Len(seq) : seq[j] = x })

C8_Total(S, x) ==
  Cardinality({ p \in S \X (1..NumTexels) :
                  /\ p[2] <= Len(grid.uvs[p[1]])
                  /\ grid.uvs[p[1]][p[2]] = x })

C8_TexelInAtMostOneCell ==
  \A i \in 0..(NumTexels - 1) :
     /\ C8_Total(Cells(scene), C5_UV(i)) <= 1
     /\ C8_Count(uvsInside.uvs, C5_UV(i)) <= 1
     /\ (/\ C6_AssignmentDone
         /\ ~C7_Uncovered(scene, C5_UV(i))
         /\ C5_WithinBounds(scene, UVto3D(scene, C5_UV(i)).worldPosition))
        => C8_Total(Cells(scene), C5_UV(i)) = 1

C8_Witness ==
  /\ pc = "loadLightTexture"
  /\ Len(uvsInside.uvs) >= 3
  /\ Len(uvsInside.offsets) >= 2
  /\ \E i \in 0..(NumTexels - 1) : C8_Total(Cells(scene), C5_UV(i)) = 0

\* C9: after any number of SH gather passes each coefficient of a sub-probe
\* with sample count N > 0 in the GPU weights buffer is the raw sum of the
\* most recent pass, multiplied by 1/(N*4*pi) exactly once.
C9_PassOpen == mode = "SPHERICAL_HARMONICS" /\ pc \in {"gatherLaunch", "gatherNormalize"}

C9_SamplesOf(i, sh) ==
  { j \in 1..Len(passSamples) :
      passSamples[j].cellIndex = i /\ passSamples[j].sample.sh = sh }

RECURSIVE C9_RawSum(_, _)
C9_RawSum(J, bf) ==
  IF J = {} THEN 0
  ELSE LET j == CHOOSE x \in J : TRUE
       IN  passSamples[j].sample.rad * Basis(passSamples[j].sample.dir, bf)
             + C9_RawSum(J \ {j}, bf)

C9_OnceNormalized(raw, N) ==
  IF raw = 0 THEN [num |-> 0, den |-> 1, pi |-> 0]
  ELSE [num |-> raw, den |-> N, pi |-> 1]

C9_NormalizedExactlyOnce ==
  ~C9_PassOpen =>
    \A k \in 0..(Len(SHBuffers.weights) - 1) :
       LET i  == k \div 72
           sh == (k % 72) \div 9
           bf == k % 9
           J  == C9_SamplesOf(i, sh)
       IN  Cardinality(J) > 0 =>
             SHBuffers.weights[k + 1] = C9_OnceNormalized(C9_RawSum(J, bf), Cardinality(J))

\* two SH gather passes in a row have completed, both deliveries non-empty
C9_Witness ==
  /\ pc = "idle"
  /\ Len(passLog) = 7
  /\ passLog[4].pass = "gatherSH"
  /\ passLog[6].pass = "gatherSH"
  /\ Len(passSamples) = MaxSamplesPerPass
  /\ \E k \in 1..Len(SHBuffers.weights) : SHBuffers.weights[k].pi = 1

\* C10: a sub-probe with sample count 0 after a gather pass is skipped: no
\* division by its count happens and its 9 coefficients are zero in the
\* buffer uploaded to the GPU and in its line of the weights file.
C10_ZeroSampleProbeSkipped ==
  ~C9_PassOpen =>
    /\ 0 \notin shDivisors
    /\ Len(weightsFile) = Len(SHBuffers.numSamples)
    /\ \A q \in 1..Len(SHBuffers.numSamples) :
         SHBuffers.numSamples[q] = 0 =>
           \A bf \in 1..9 :
              /\ SHBuffers.weights[(q - 1) * 9 + bf] = [num |-> 0, den |-> 1, pi |-> 0]
              /\ weightsFile[q][bf] = [num |-> 0, den |-> 1, pi |-> 0]

C10_Witness ==
  /\ pc = "scatter"
  /\ mode = "SPHERICAL_HARMONICS"
  /\ \E q \in 1..Len(SHBuffers.numSamples) : SHBuffers.numSamples[q] = 0
  /\ \E q \in 1..Len(SHBuffers.numSamples) : SHBuffers.numSamples[q] = 2
  /\ 2 \in shDivisors

\* C11: during an SH gather pass over n non-empty cells the weights buffer
\* has exactly n*72 slots and the sample-count buffer n*8; the index
\* cell*72 + subProbe*9 + basis maps the n*8*9 triples one-to-one onto
\* 0..n*72-1 and cell*8 + subProbe maps the n*8 pairs one-to-one onto
\* 0..n*8-1, so every slot the host normalization and the file dump touch
\* lies inside the buffers and belongs to one triple only.
C11_IndexIsBijection ==
  C9_PassOpen =>
    LET n == Len(nonEmpties)
    IN  /\ Len(SHBuffers.weights) = n * 72
        /\ Len(SHBuffers.numSamples) = n * 8
        /\ Cardinality(SHTriples(n)) = n * 72
        /\ HostAccessedWeightSlots(n) = 0..(n * 72 - 1)
        /\ Cardinality(SHPairs(n)) = n * 8
        /\ HostAccessedCountSlots(n) = 0..(n * 8 - 1)
        /\ \A k \in HostAccessedWeightSlots(n) : k + 1 \in DOMAIN SHBuffers.weights
        /\ \A k \in HostAccessedCountSlots(n) : k + 1 \in DOMAIN SHBuffers.numSamples

\* the host loops are about to run over the buffers of two cells
C11_Witness ==
  /\ pc = "gatherNormalize"
  /\ Len(nonEmpties) = 2
  /\ Len(SHBuffers.weights) = 144
  /\ passSamples # << >>

\* C12: once the pass producing a bounce texture has completed (the direct
\* pass for the direct texture, a scatter pass for its destination), every
\* texel of that texture holds a value stored by that pass; none keeps its
\* initial contents or those of an earlier pass.
C12_DirectPassDone ==
  passLog # << >> /\ pc \notin {"calculateDirectLighting", "directSync"}

C12_ScatterPassDone ==
  /\ pc \in {"bounceLoop", "idle"}
  /\ Len(passLog) > 1
  /\ passLog[Len(passLog)].pass = "scatter"

C12_FullyOverwritten ==
  /\ C12_DirectPassDone =>
       \A i \in 1..NumTexels :
          textures["directLightingTexture"][i].by = <<"direct", 0, 0>>
  /\ C12_ScatterPassDone =>
       LET e == passLog[Len(passLog)]
       IN  \A i \in 1..NumTexels :
              textures[e.dst][i].by = <<"scatter", calls, e.iter>>

\* C13: the SH accumulators do not depend on the order in which the threads
\* of a gather pass deliver their samples: whatever the interleaving, the
\* sample count of a sub-probe is the number of samples delivered to it and
\* each coefficient is the sum of their products; the host reads the
\* accumulators only when no launch is outstanding.
C13_OrderIndependent ==
  /\ C9_PassOpen =>
       \A k \in 0..(Len(SHBuffers.weights) - 1) :
          LET J == C9_SamplesOf(k \div 72, (k % 72) \div 9)
          IN  /\ SHBuffers.numSamples[(k \div 9) + 1] = Cardinality(J)
              /\ SHBuffers.weights[k + 1] = [num |-> C9_RawSum(J, k % 9), den |-> 1, pi |-> 0]
  /\ pc = "gatherNormalize" => (stream = << >> /\ sinceSync = {})

\* two different samples reached one sub-probe, the one listed later in
\* the sample table first, and the host is about to read
C13_Witness ==
  /\ pc = "gatherNormalize"
  /\ Len(passSamples) = 2
  /\ passSamples[1].cellIndex = passSamples[2].cellIndex
  /\ passSamples[1].sample = SampleTable[3]
  /\ passSamples[2].sample = SampleTable[1]

C16_SHPassLogged == \E p \in 1..Len(passLog) : passLog[p].pass = "gatherSH"

C16_FileMatchesUpload ==
  (C16_SHPassLogged /\ ~C9_PassOpen) =>
    /\ Len(weightsFile) = Len(nonEmpties) * NUM_SH_PER_CELL
    /\ \A l \in 1..Len(weightsFile) :
         LET i == (l - 1) \div NUM_SH_PER_CELL
             sh == (l - 1) % NUM_SH_PER_CELL
             J == C9_SamplesOf(i, sh)
         IN  /\ Len(weightsFile[l]) = SPHERICAL_HARMONIC_BASIS_FUNCTIONS
             /\ SHBuffers.numSamples[l] = Cardinality(J)
             /\ \A k \in 0..(SPHERICAL_HARMONIC_BASIS_FUNCTIONS - 1) :
                  /\ weightsFile[l][k + 1] =
                       IF Cardinality(J) > 0
                       THEN C9_OnceNormalized(C9_RawSum(J, k), Cardinality(J))
                       ELSE Zero
                  /\ weightsFile[l][k + 1] = SHBuffers.weights[i * 72 + sh * 9 + k + 1]

\* the file of a pass over two cells: a line with a weighted non-zero
\* value, a line of a sub-probe without samples, the last line not empty
C16_Witness ==
  /\ pc = "scatter"
  /\ mode = "SPHERICAL_HARMONICS"
  /\ Len(weightsFile) = 2 * NUM_SH_PER_CELL
  /\ \E k \in 1..9 : weightsFile[2 * NUM_SH_PER_CELL][k].pi = 1
  /\ \E k \in 1..9 : weightsFile[1][k].pi = 1
  /\ \A k \in 1..9 : weightsFile[2][k] = Zero

\* C17: a zero-sized frame is a no-op.  render called while the frame size
\* has a zero component issues no launch and changes nothing; resize with a
\* zero component leaves frame size, colour buffer and camera as they were;
\* and every render launch issued has two non-zero dimensions.
C17_ZeroComponent(size) == size[1] = 0 \/ size[2] = 0

C17_ZeroFrameNoOp ==
  /\ [](\A d \in frameLaunches : ~C17_ZeroComponent(d))
  /\ [][ frameCalls' # frameCalls =>
           /\ (lastFrameCall'.op = "render" /\ C17_ZeroComponent(frameSize)) =>
                UNCHANGED << rendererVars, octreeVars, frameSize, colorBuffer,
                             camera, frameLaunches >>
           /\ (lastFrameCall'.op = "resize" /\ lastFrameCall'.minimized) =>
                UNCHANGED << frameSize, colorBuffer, camera >> ]_vars

\* render has just been called on the initial frame, which no call has
\* changed
C17_Witness ==
  /\ lastFrameCall.op = "render"
  /\ frameCalls = MaxFrameCalls
  /\ frameSize = << 0, 0 >>
  /\ colorBuffer = 0
  /\ frameLaunches = {}

\* C18: with a device count of 0 the construction of the renderer ends in
\* initOptix with an exception, before any later start-up step: no device
\* context is created, no buffer is allocated or uploaded, no pipeline is
\* built and no pass is launched.
C18_NoDeviceAbortsStartup ==
  numDevices = 0 =>
    /\ pc \in {"initOptix", "failed"}
    /\ pc = "failed" => exception = "No CUDA capable devices found!"
    /\ optixContext = FALSE
    /\ pipelines = FALSE
    /\ cellIndexUses = {}
    /\ textures = [n \in TextureNames |-> << >>]
    /\ UVWorldPositions = << >>
    /\ uvsInside = [uvs |-> << >>, offsets |-> << >>]
    /\ ~lightSourceTexture.allocated
    /\ SHBuffers = [weights |-> << >>, numSamples |-> << >>]
    /\ stream = << >>
    /\ passLog = << >>

\* the constructor has thrown on a machine without a device
C18_Witness ==
  /\ numDevices = 0
  /\ pc = "failed"
  /\ exception = "No CUDA capable devices found!"

\* C19 (as stated): a light texture image that cannot be loaded does not
\* end the run: the failure is logged, and the steps that consume the light
\* source texture (downloadAndWriteLightSourceTexture, the first gather
\* pass) go on without reading a buffer that was never allocated and
\* without an error.
C19_MissingLightTextureTolerated ==
  (lightFile = "missing" /\ numDevices > 0) =>
    /\ faults = {}
    /\ pc # "failed"

\* C20 (as stated): in the direct-lighting pass the contributions are
\* accumulated per texel: after the pass a texel holds the combined
\* contribution of all rays that hit it (all lights, stratify cells and
\* samples), whatever the order of the threads, and a texel no ray hit was
\* not written.
C20_HitTexel(tc) ==
  ((tc[1] * TexSize) \div UVOne) + TexSize * ((tc[2] * TexSize) \div UVOne)

C20_Hitting(i) ==
  { t \in DirectLaunchGrid :
      TraceOutcome(scene)[t].hit /\ C20_HitTexel(TraceOutcome(scene)[t].tc) = i }

RECURSIVE C20_Sum(_, _)
C20_Sum(T, c) ==
  IF T = {} THEN 0
  ELSE LET t == CHOOSE x \in T : TRUE
       IN  NUM_SAMPLES_PER_STRATIFY_CELL * Rgba(LightPowerRead(t, lightDataBuffer))[c]
             + C20_Sum(T \ {t}, c)

C20_AccumulatedPerTexel ==
  C12_DirectPassDone =>
    \A i \in 0..(NumTexels - 1) :
       LET tx == textures["directLightingTexture"][i + 1]
       IN  IF C20_Hitting(i) = {}
           THEN tx.by = <<"init", 0, 0>>
           ELSE \A c \in 1..3 : tx.val[c] = C20_Sum(C20_Hitting(i), c)

\* C21 (as stated): the direct-lighting launch is marshalled consistently
\* with its kernel: for every thread of the launch grid lightIndex is below
\* amountLights, stratifyIndexX below stratifyResX, stratifyIndexY below
\* stratifyResY, and every texel index written lies in [0, size*size).
C21_LaunchMatchesKernel ==
  (\E p \in 1..Len(passLog) : passLog[p].pass = "direct") =>
    \A t \in DirectLaunchGrid :
       /\ LightIndexOf(t) < amountLights
       /\ StratifyIndexX(t) < STRATIFIED_X_SIZE
       /\ StratifyIndexY(t) < STRATIFIED_Y_SIZE
       /\ DirectThreadStores(TraceOutcome(scene)[t]) =>
            DirectWriteIndex(PRDAfterTrace(TraceOutcome(scene)[t])) \in 0..(NumTexels - 1)

\* C22: during one cubemap gather pass, for every non-empty cell, every
\* (face, u, v) with face below 6 and u, v below cubeMapResolution of the
\* cell's cubemap is written exactly once, and every write of the launch for
\* the cell lands inside the cell's own 6 * cubeMapResolution^2 region of
\* the cubemap buffer.
C22_CellRegion(i) ==
  (i * 6 * cubeMapResolution * cubeMapResolution)
    .. ((i + 1) * 6 * cubeMapResolution * cubeMapResolution - 1)

C22_GatherLaunched ==
  /\ mode = "CUBE_MAP"
  /\ pc = "gatherLaunch"
  /\ cellIdx = Len(nonEmpties)

C22_WrittenOnceInOwnRegion ==
  C22_GatherLaunched =>
    \A i \in 0..(Len(nonEmpties) - 1) :
       /\ \A idx \in C22_CellRegion(i) : Cardinality(CubeMapWriters(probeOffset, idx)) = 1
       /\ \A t \in CubeMapLaunchGrid : CubeMapWriteIndex(probeOffset, t) \in C22_CellRegion(i)

\* C23: the value a cubemap gather thread writes is, on a hit, the red,
\* green and blue byte of the light source texture at the texel of the
\* intersection's UV coordinate, unchanged, with alpha 0xff, and on a miss
\* black; where no ray hits geometry every written cubemap texel is black.
C23_Channel(w, n) == (w.rgb \div (256 ^ n)) % 256

C23_Written(k) == cubeMaps[k].by # << >>

C23_HitRepacksMissBlack ==
  /\ \A k \in 1..Len(cubeMaps) :
       C23_Written(k) =>
         LET ray == cubeMaps[k].by[2]
             w == cubeMaps[k].word
         IN  /\ w.a = 255
             /\ ray.hit =>
                  \A n \in 0..2 :
                     C23_Channel(w, n)
                       = C23_Channel(lightSourcePixels[CubeMapTexelIndex(ray.tc) + 1], n)
             /\ ~ray.hit => w.rgb = 0
  /\ (\A t \in CubeMapLaunchGrid : ~cubeRays[t].hit) =>
       \A k \in 1..Len(cubeMaps) : C23_Written(k) => cubeMaps[k].word = ColorWord(0, 255)

\* a launch has stored the word of a hit, taken from a texel whose three
\* channels differ and whose alpha is not 0xff, and the word of a miss
C23_Witness ==
  /\ \E k \in 1..Len(cubeMaps) :
       /\ C23_Written(k)
       /\ cubeMaps[k].by[2].hit
       /\ cubeMaps[k].word.rgb = 255 + 65536 * 128
       /\ lightSourcePixels[CubeMapTexelIndex(cubeMaps[k].by[2].tc) + 1].a = 0
  /\ \E k \in 1..Len(cubeMaps) : C23_Written(k) /\ ~cubeMaps[k].by[2].hit

\* C24: in the hybrid scatter kernel, for every sample of a thread, the
\* traced-contribution branch is taken if and only if the closest-hit
\* program ran for the sample's ray, and the probe branch otherwise; the
\* hit-found flag is 0 when the ray is traced, whatever earlier samples
\* hit; and on a miss what is added to the radiance total is the probe
\* contribution, never the contents of the colour payload registers.
C24_FlagDecidesBranch ==
  scatterThread.kernel = "hybrid" =>
    \A k \in 1..Len(scatterThread.log) :
       LET e == scatterThread.log[k]
       IN  /\ e.flagAtTrace = 0
           /\ e.branch = "traced" <=> e.closestHit
           /\ e.branch = "probe" <=> ~e.closestHit
           /\ e.closestHit => e.added = e.cosContribution * HitRadiance
           /\ ~e.closestHit => e.added = e.cosContribution * ProbeRadiance

\* a hybrid thread whose registers started with other contents than the
\* probe radiance has taken a sample that hit and, after it, a sample that
\* met geometry beyond the tracing range
C24_Witness ==
  /\ scatterThread.kernel = "hybrid"
  /\ Len(scatterThread.log) = 2
  /\ scatterThread.log[1].closestHit
  /\ ~scatterThread.log[2].closestHit
  /\ scatterThread.inputs[2].dist = 1
  /\ scatterThread.log[2].branch = "probe"

\* C25: in both scatter kernels, for every sample, the direction that is
\* traced has a non-negative dot product with the normal, and the cosine
\* factor multiplied into the sample's contribution is that dot product,
\* hence never negative.
C25_CosineOfTracedDirection ==
  \A k \in 1..Len(scatterThread.log) :
     /\ scatterThread.log[k].tracedDot >= 0
     /\ scatterThread.log[k].cosContribution = scatterThread.log[k].tracedDot
     /\ scatterThread.log[k].cosContribution >= 0

\* C26: in every scatter kernel the value stored for a texel is the sum of
\* the contributions of the samples accumulated, multiplied by the diffuse
\* albedo of the texel and divided by numSamples * 2 * pi, numSamples being
\* the number of samples accumulated; the hybrid and the unbiased kernel
\* use the same estimator.
RECURSIVE C26_Sum(_, _)
C26_Sum(log, k) == IF k > Len(log) THEN 0 ELSE log[k].added + C26_Sum(log, k + 1)

C26_SameEstimator ==
  scatterThread.stored =>
    scatterThread.result =
      Estimate(C26_Sum(scatterThread.log, 1) * scatterThread.diffuseColor,
               Len(scatterThread.log), 2)

\* C27: within a scatter pass each thread owns its output: the thread for
\* texel uv of a cell stores to one location of the current-bounce texture
\* (or of the octree texture), the location later passes read for uv, and
\* no two threads of the pass, of the same or of different cell launches,
\* store to the same location.
C27_Threads ==
  { t \in (0..(NumTexels - 1)) \X (0..(NumTexels - 1)) :
      /\ t[1] < Len(getNonEmptyCells(scene, grid))
      /\ t[2] < Len(grid.uvs[getNonEmptyCells(scene, grid)[t[1] + 1]]) }

C27_UV(t) == ScatterThreadUV(uvsInside, t[1], t[2])

C27_BufferPrepared ==
  pc \notin {"initOptix", "createContext", "fillGeometryBuffers", "setupPipelines",
             "initLightingTextures", "prepareUVWorldPositions",
             "prepareUVsInsideBuffer", "failed"}

C27_ThreadOwnsOutput ==
  C27_BufferPrepared =>
    /\ \A t \in C27_Threads :
          /\ ScatterWriteIndex(C27_UV(t)) \in 0..(NumTexels - 1)
          /\ TexelUV(ScatterWriteIndex(C27_UV(t))) = C27_UV(t)
    /\ \A t, u \in C27_Threads :
          t # u =>
            /\ ScatterWriteIndex(C27_UV(t)) # ScatterWriteIndex(C27_UV(u))
            /\ OctreeWriteKey(UVWorldPositions, C27_UV(t))
                 # OctreeWriteKey(UVWorldPositions, C27_UV(u))

\* C28: UVto3D(uv) returns the data of the first triangle, in game object
\* order and then triangle order, whose UV area is not zero and whose three
\* barycentric coordinates of uv are all >= 0; a triangle of area zero is
\* never selected, so no coordinate is a quotient by zero; when no triangle
\* qualifies the record with position and normal (-1000, -1000, -1000) is
\* returned; and the scene is left as it was.
C28_Area(t) == area(MeshScaled(t.tri.uv[1]), MeshScaled(t.tri.uv[2]), MeshScaled(t.tri.uv[3]))

\* sign of the barycentric coordinate area(b, c, uv) / a, for a # 0
C28_CoordinateNonNegative(b, c, p, a) ==
  IF a > 0 THEN area(b, c, p) >= 0 ELSE area(b, c, p) <= 0

C28_Qualifies(t, uv) ==
  /\ C28_Area(t) # 0
  /\ C28_CoordinateNonNegative(MeshScaled(t.tri.uv[2]), MeshScaled(t.tri.uv[3]),
                               TexelScaled(uv), C28_Area(t))
  /\ C28_CoordinateNonNegative(MeshScaled(t.tri.uv[3]), MeshScaled(t.tri.uv[1]),
                               TexelScaled(uv), C28_Area(t))
  /\ C28_CoordinateNonNegative(MeshScaled(t.tri.uv[1]), MeshScaled(t.tri.uv[2]),
                               TexelScaled(uv), C28_Area(t))

C28_Qualifying(uv) ==
  { k \in 1..Len(SceneTriangles(scene)) : C28_Qualifies(SceneTriangles(scene)[k], uv) }

C28_ReturnsFirstQualifying ==
  \A i \in 1..Len(UVWorldPositions) :
     LET uv == TexelUV(i - 1)
         data == UVWorldPositions[i]
     IN  IF C28_Qualifying(uv) = {}
         THEN /\ data.worldPosition = SentinelPos
              /\ data.worldNormal = SentinelPos
         ELSE /\ data.tri \in C28_Qualifying(uv)
              /\ \A k \in C28_Qualifying(uv) : data.tri <= k
              /\ C28_Area(SceneTriangles(scene)[data.tri]) # 0
              /\ data.worldPosition.d # 0
              /\ data.worldPosition = TrianglePosition(SceneTriangles(scene)[data.tri], uv)

C28_FirstQualifyingTriangle ==
  /\ []C28_ReturnsFirstQualifying
  /\ [][scene' = scene]_vars

\* UVto3D has been applied to every texel of a scene whose first triangle
\* has area zero; a texel on that triangle got the data of a later triangle
C28_Witness ==
  /\ Len(UVWorldPositions) = NumTexels
  /\ Len(SceneTriangles(scene)) > 1
  /\ C28_Area(SceneTriangles(scene)[1]) = 0
  /\ UVWorldPositions[1].tri > 1

\* C29: in each probe mode the probe buffer a scatter pass reads is a buffer
\* that the gather pass of the same iteration and mode has written, and a
\* scatter pass never reads a probe buffer that no preceding gather pass
\* has allocated and populated.
C29_Allocated(buffer) ==
  IF buffer = "SHWeightsDataBuffer" THEN SHBuffers.weights # << >>
  ELSE cubeMaps # << >>

C29_ScatterReadsGatheredProbes ==
  \A k \in 1..Len(passLog) :
     passLog[k].pass = "scatter" =>
       /\ k > 1
       /\ C2_IsGather(passLog[k - 1])
       /\ passLog[k - 1].mode = passLog[k].mode
       /\ passLog[k - 1].iter = passLog[k].iter
       /\ passLog[k].src = passLog[k - 1].dst
       /\ getNonEmptyCells(scene, grid) # << >> => C29_Allocated(passLog[k].src)

\* C30: the flattened texel buffer agrees with its offsets: after
\* prepareUVsInsideBuffer, offsets[i] is the number of texels of the
\* non-empty cells 0..i-1 and uvsInside[offsets[i] + j] is the j-th texel of
\* cell i; hence every thread j of the scatter launch for cell i, whose
\* width is the number of texels of cell i, reads inside the buffer a texel
\* of cell i and of no other cell.
RECURSIVE C30_TexelsBefore(_, _)
C30_TexelsBefore(cells, i) ==
  IF i = 0 THEN 0
  ELSE C30_TexelsBefore(cells, i - 1) + Len(grid.uvs[cells[i]])

C30_InList(uv, c) == \E j \in 1..Len(grid.uvs[c]) : grid.uvs[c][j] = uv

C30_ThreadReadsOwnCell(cells, i, j) ==
  /\ uvsInside.offsets[i + 1] + j + 1 \in 1..Len(uvsInside.uvs)
  /\ ScatterThreadUV(uvsInside, i, j) = grid.uvs[cells[i + 1]][j + 1]
  /\ \A c \in Cells(scene) :
        C30_InList(ScatterThreadUV(uvsInside, i, j), c) <=> c = cells[i + 1]

C30_BufferMatchesOffsets ==
  C27_BufferPrepared =>
    LET cells == getNonEmptyCells(scene, grid)
    IN  /\ Len(uvsInside.offsets) = Len(cells)
        /\ Len(uvsInside.uvs) = C30_TexelsBefore(cells, Len(cells))
        /\ \A i \in 0..(Len(cells) - 1) :
              /\ uvsInside.offsets[i + 1] = C30_TexelsBefore(cells, i)
              /\ \A j \in 0..(Len(grid.uvs[cells[i + 1]]) - 1) :
                    C30_ThreadReadsOwnCell(cells, i, j)
        /\ \A k \in 1..Len(stream) :
              stream[k].pass = "scatter" =>
                /\ stream[k].cellIndex < Len(cells)
                /\ stream[k].cell = cells[stream[k].cellIndex + 1]
                /\ \A j \in 0..(Len(grid.uvs[stream[k].cell]) - 1) :
                      C30_ThreadReadsOwnCell(cells, stream[k].cellIndex, j)

C30_Witness ==
  /\ \E k \in 1..Len(stream) :
        /\ stream[k].pass = "scatter"
        /\ stream[k].cellIndex > 0
        /\ Len(grid.uvs[stream[k].cell]) >= 1
        /\ uvsInside.offsets[stream[k].cellIndex + 1] > 0
  /\ Len(uvsInside.uvs) >= 3

====
